---- MODULE Spec2Model ----
(***************************************************************************)
(* State-machine model of the POS backbone: ProductModel.record_sale       *)
(* (src/model.py), the payment flow of POSWindow.handle_payment and the    *)
(* Linkly terminal client (src/uipos.py, src/payment_dialog.py).           *)
(*                                                                         *)
(* Money and quantities are integers (cents / whole units); Python floats  *)
(* are used by the code only for arithmetic the integers reproduce.        *)
(***************************************************************************)
EXTENDS Integers, Sequences, FiniteSets, TLC

(***************************************************************************)
(* Bounds of the model                                                     *)
(***************************************************************************)
InitStock == 3
MaxItems == 2
MaxSales == 2
MaxWs == 2
MaxWords == 2
MaxCart == 1
MaxChunks == 2
MaxCache == 2    \* entries of the cache file at the start, and of a merged list
MaxRows == 3     \* attendance rows
MaxNow == 4      \* ticks of the database clock
TicksPerDay == 2 \* ticks between two midnights

PoolSize == 4

ProductIds == {1, 2}
\* qty of a line item; the keypad allows a sign toggle, so negatives occur
QtyValues == {-1, 1, 5}
\* deduct_unit of a line item; 0 stands for every falsy value
\* (key missing, None, 0), which `or 1.0` treats alike
DeductUnits == {0, 1, 2}
UnitPrice == [p \in ProductIds |-> p + 1]
Methods == {"cash", "card"}

\* a line item as record_sale reads it: id, qty, price, amount, deduct_unit.
\* The caller supplies amount: qty * price as the cart computes it, or (second
\* set) a value that differs from it.
Items ==
  { [id |-> p, qty |-> q, price |-> UnitPrice[p], amount |-> q * UnitPrice[p],
     deduct_unit |-> d] : p \in ProductIds, q \in QtyValues, d \in DeductUnits }
  \cup
  { [id |-> p, qty |-> 1, price |-> UnitPrice[p], amount |-> UnitPrice[p] + 1,
     deduct_unit |-> d] : p \in ProductIds, d \in DeductUnits }

VARIABLES
  \* ---- product database (committed state, visible to every session)
  sales,        \* rows of table `sales`, in insertion order
  stock,        \* products.stock by product id
  \* ---- the connection record_sale holds
  poolOut,      \* connections checked out of the product pool
  inTx,         \* the connection has an open transaction
  txSales,      \* the transaction's uncommitted view of `sales`
  txStock,      \* the transaction's uncommitted view of products.stock
  \* ---- record_sale call frame
  rs_pc,        \* "idle", "connect", "begin", "insert", "update", "commit", "done"
  rs_items,
  rs_method,
  rs_i,         \* index of the item of the for loop
  rs_ret,       \* "none", "True", "False", "DatabaseError", "MySQLError"
  rs_failedAt,  \* the step whose driver call failed, or "none"
  rs_commits,   \* commits issued by the current call
  rs_acquired,  \* connections the current call checked out of the pool
  rs_caller,    \* "api" or "handle_payment"
  pre_sales,    \* `sales` when the current call started
  pre_stock,    \* `stock` when the current call started
  \* ---- one terminal response and its interpretation
  in_doc,       \* what the terminal meant to send (a description of in_wire)
  in_wire,      \* the bytes received, before trimming
  ip_pc,        \* "ready", "done"
  ip_out,       \* the (approved, message) pair returned, or the exception
  \* ---- POSWindow: the cart table and the running handle_payment
  cart,         \* filled rows of the table with their row_products entry
  hp_pc,        \* "idle", "dialog", "connect", "send", "recv", "saving", "finished"
  hp_total,     \* total due, read from the total label
  hp_method,    \* dialog.selected_method
  hp_tendered,  \* dialog.tendered_amount (0 when None)
  hp_outcome,   \* how the handler ended
  hp_error,     \* the error message shown: [kind, cause]
  hp_sales0,    \* `sales` when the handler started
  hp_stock0,    \* `stock` when the handler started
  \* ---- the Linkly exchange of the current attempt
  lk_connects,  \* connections attempted
  lk_sends,     \* sendall calls made
  lk_chunks,    \* the chunks recv returned
  lk_sockErr,   \* the socket-level error that occurred, or "none"
  lk_raised,    \* the exception _send_linkly_payload raised, or "none"
  lk_more,      \* parity of the chunks received after the MaxChunks kept in lk_chunks
  \* ---- the last quantity request on the cart (scan, search or keypad)
  qa,           \* what was asked, what the operator answered, the cart before
  \* ---- the product cache file and the products table the lookups read
  cacheFile,    \* products_cache.json: [state, content]
  source,       \* rows of table `products`, in table order
  c_last,       \* the repository call that returned last, with what it saw and did
  \* ---- the staff database and the running handle_clock_action
  attendance,   \* rows of table `attendance`; the id of a row is its index
  now,          \* ticks of the database clock
  hc_pc,        \* "idle", "auth", "lookup", "act"
  hc_staff,     \* the staff id verify_staff_credentials returned
  hc_today,     \* the id get_today_attendance returned, 0 for none
  a_last        \* the attendance call that returned last

saleVars == <<sales, stock, poolOut, inTx, txSales, txStock, rs_pc, rs_items,
              rs_method, rs_i, rs_ret, rs_failedAt, rs_commits, rs_acquired,
              rs_caller, pre_sales, pre_stock>>

interpVars == <<in_doc, in_wire, ip_pc, ip_out>>

\* everything record_sale does not touch
nonSaleVars == <<in_doc, in_wire, ip_pc, ip_out, cart, hp_pc, hp_total, hp_method,
                 hp_tendered, hp_outcome, hp_error, hp_sales0, hp_stock0, lk_connects,
                 lk_sends, lk_chunks, lk_sockErr, lk_raised, lk_more, qa, cacheFile, source,
                 c_last, attendance, now, hc_pc, hc_staff, hc_today, a_last>>

uiVars == <<cart, hp_pc, hp_total, hp_method, hp_tendered, hp_outcome, hp_error,
            hp_sales0, hp_stock0>>

linklyVars == <<lk_connects, lk_sends, lk_chunks, lk_sockErr, lk_raised>>

cacheVars == <<cacheFile, source, c_last>>

attVars == <<attendance, now, hc_pc, hc_staff, hc_today, a_last>>

\* everything the payment flow and the response interpreter do not touch
repoVars == <<cacheVars, attVars, qa, lk_more>>

\* everything the product lookups and the attendance calls do not touch
posVars == <<saleVars, interpVars, uiVars, linklyVars, qa, lk_more>>

vars == <<saleVars, interpVars, uiVars, linklyVars, cacheVars, attVars, qa, lk_more>>

(***************************************************************************)
(* record_sale, src/model.py:343-386                                       *)
(***************************************************************************)

\* `if not items: return False`
RejectsEmptyNever(items) == FALSE
RejectsEmpty(items) == items = <<>>

\* float(item.get("deduct_unit") or 1.0)
DeductUnitNoDefault(item) == item.deduct_unit
DeductUnit(item) == IF item.deduct_unit = 0 THEN 1 ELSE item.deduct_unit

\* float(item.get("qty") or 0.0)
Qty(item) == item.qty

\* SET stock = GREATEST(0, stock - %s)
Greatest0NoFloor(s, amt) == s - amt
Greatest0(s, amt) == IF s - amt > 0 THEN s - amt ELSE 0

\* the row of INSERT INTO sales (id, prod_id, method_type, amount, qty)
SaleRow(item, method) ==
  [prod_id |-> item.id, method_type |-> method, amount |-> item.amount, qty |-> item.qty]

\* UPDATE products SET stock = GREATEST(0, stock - qty*deduct_unit) WHERE id = item.id
UpdateStock(st, item) ==
  [p \in DOMAIN st |->
     IF p = item.id THEN Greatest0(st[p], Qty(item) * DeductUnit(item)) ELSE st[p]]

\* conn.rollback(): the committed table is what it was before the transaction
RollbackToKeepsWrites(committed, session) == session
RollbackTo(committed, session) == committed

\* conn.commit(): the session's view becomes the committed table
CommitTo(committed, session) == session

RecordSaleEnter(items, method, caller) ==
  /\ rs_pc = "idle"
  /\ rs_items' = items
  /\ rs_method' = method
  /\ rs_caller' = caller
  /\ rs_i' = 1
  /\ rs_failedAt' = "none"
  /\ rs_commits' = 0
  /\ rs_acquired' = 0
  /\ pre_sales' = sales
  /\ pre_stock' = stock
  /\ IF RejectsEmpty(items)
       THEN rs_pc' = "done" /\ rs_ret' = "False"
       ELSE rs_pc' = "connect" /\ rs_ret' = "none"
  /\ UNCHANGED <<sales, stock, poolOut, inTx, txSales, txStock>>

\* conn = self._pool_connect()   (model.py:350, 56-88)
RsConnect ==
  /\ UNCHANGED nonSaleVars
  /\ rs_pc = "connect"
  /\ \E ok \in BOOLEAN :
       /\ ok => poolOut < PoolSize
       /\ IF ok
            THEN /\ poolOut' = poolOut + 1
                 /\ rs_acquired' = rs_acquired + 1
                 /\ rs_pc' = "begin"
                 /\ UNCHANGED <<rs_ret, rs_failedAt>>
            ELSE /\ rs_pc' = "done"
                 /\ rs_ret' = "DatabaseError"
                 /\ rs_failedAt' = "connect"
                 /\ UNCHANGED <<poolOut, rs_acquired>>
  /\ UNCHANGED <<sales, stock, inTx, txSales, txStock, rs_items, rs_method, rs_i,
                 rs_commits, rs_caller, pre_sales, pre_stock>>

\* conn.start_transaction(); cur = conn.cursor()   (model.py:351-352)
\* A failure here is outside the try block: the driver's error leaves raw and
\* neither cur.close() nor conn.close() runs.
RsBegin ==
  /\ UNCHANGED nonSaleVars
  /\ rs_pc = "begin"
  /\ \E ok \in BOOLEAN :
       IF ok
         THEN /\ inTx' = TRUE
              /\ txSales' = sales
              /\ txStock' = stock
              /\ rs_pc' = IF rs_i <= Len(rs_items) THEN "insert" ELSE "commit"
              /\ UNCHANGED <<rs_ret, rs_failedAt>>
         ELSE /\ rs_pc' = "done"
              /\ rs_ret' = "MySQLError"
              /\ rs_failedAt' = "begin"
              /\ UNCHANGED <<inTx, txSales, txStock>>
  /\ UNCHANGED <<sales, stock, poolOut, rs_items, rs_method, rs_i, rs_commits,
                 rs_acquired, rs_caller, pre_sales, pre_stock>>

\* except mysql.connector.Error: conn.rollback(); raise DatabaseError
\* finally: cur.close(); conn.close()            (model.py:381-386)
RsFail(step) ==
  /\ sales' = RollbackTo(sales, txSales)
  /\ stock' = RollbackTo(stock, txStock)
  /\ inTx' = FALSE
  /\ txSales' = <<>>
  /\ txStock' = stock'
  /\ poolOut' = poolOut - 1
  /\ rs_pc' = "done"
  /\ rs_ret' = "DatabaseError"
  /\ rs_failedAt' = step
  /\ UNCHANGED <<rs_i, rs_commits>>

\* cur.execute(INSERT INTO sales ...)   (model.py:355-368)
RsInsert ==
  /\ UNCHANGED nonSaleVars
  /\ rs_pc = "insert"
  /\ \E ok \in BOOLEAN :
       IF ok
         THEN /\ txSales' = Append(txSales, SaleRow(rs_items[rs_i], rs_method))
              /\ rs_pc' = "update"
              /\ UNCHANGED <<sales, stock, poolOut, inTx, txStock, rs_i, rs_ret,
                             rs_failedAt, rs_commits>>
         ELSE RsFail("insert")
  /\ UNCHANGED <<rs_items, rs_method, rs_acquired, rs_caller, pre_sales, pre_stock>>

\* cur.execute(UPDATE products ...)   (model.py:369-378)
RsUpdate ==
  /\ UNCHANGED nonSaleVars
  /\ rs_pc = "update"
  /\ \E ok \in BOOLEAN :
       IF ok
         THEN /\ txStock' = UpdateStock(txStock, rs_items[rs_i])
              /\ rs_i' = rs_i + 1
              /\ rs_pc' = IF rs_i < Len(rs_items) THEN "insert" ELSE "commit"
              /\ UNCHANGED <<sales, stock, poolOut, inTx, txSales, rs_ret,
                             rs_failedAt, rs_commits>>
         ELSE RsFail("update")
  /\ UNCHANGED <<rs_items, rs_method, rs_acquired, rs_caller, pre_sales, pre_stock>>

\* conn.commit(); return True; finally: cur.close(); conn.close()  (model.py:379-386)
RsCommit ==
  /\ UNCHANGED nonSaleVars
  /\ rs_pc = "commit"
  /\ \E ok \in BOOLEAN :
       IF ok
         THEN /\ sales' = CommitTo(sales, txSales)
              /\ stock' = CommitTo(stock, txStock)
              /\ inTx' = FALSE
              /\ txSales' = <<>>
              /\ txStock' = stock'
              /\ poolOut' = poolOut - 1
              /\ rs_commits' = rs_commits + 1
              /\ rs_pc' = "done"
              /\ rs_ret' = "True"
              /\ UNCHANGED <<rs_i, rs_failedAt>>
         ELSE RsFail("commit")
  /\ UNCHANGED <<rs_items, rs_method, rs_acquired, rs_caller, pre_sales, pre_stock>>

\* the frame of a finished call is gone
RsFrameReset ==
  /\ rs_pc' = "idle"
  /\ rs_items' = <<>>
  /\ rs_method' = "cash"
  /\ rs_i' = 1
  /\ rs_ret' = "none"
  /\ rs_failedAt' = "none"
  /\ rs_commits' = 0
  /\ rs_acquired' = 0
  /\ rs_caller' = "api"
  /\ pre_sales' = <<>>
  /\ pre_stock' = stock


\* a caller of the repository's query surface invokes record_sale(items, method)
ApiRecordSale ==
  /\ UNCHANGED nonSaleVars
  /\ rs_pc = "idle"
  /\ \E n \in 0..MaxItems :
       /\ Len(sales) + n <= MaxSales
       /\ \E items \in [1..n -> Items], method \in Methods :
            RecordSaleEnter(items, method, "api")

\* the call has returned (or raised) to the api caller
ApiRecordSaleReturn ==
  /\ UNCHANGED nonSaleVars
  /\ rs_pc = "done"
  /\ rs_caller = "api"
  /\ RsFrameReset
  /\ UNCHANGED <<sales, stock, poolOut, inTx, txSales, txStock>>

SaleInit ==
  /\ sales = <<>>
  /\ stock = [p \in ProductIds |-> InitStock]
  /\ poolOut = 0
  /\ inTx = FALSE
  /\ txSales = <<>>
  /\ txStock = [p \in ProductIds |-> InitStock]
  /\ rs_pc = "idle"
  /\ rs_items = <<>>
  /\ rs_method = "cash"
  /\ rs_i = 1
  /\ rs_ret = "none"
  /\ rs_failedAt = "none"
  /\ rs_commits = 0
  /\ rs_acquired = 0
  /\ rs_caller = "api"
  /\ pre_sales = <<>>
  /\ pre_stock = stock

(***************************************************************************)
(* The Linkly response as bytes, src/uipos.py:814-845.                     *)
(* A response is a sequence of tokens [t, s]: whitespace ("ws"), JSON      *)
(* punctuation ("punct"), a JSON string ("str", s its content), a JSON     *)
(* literal ("lit"), a JSON number ("num") or bare text ("raw").            *)
(***************************************************************************)
Tok(t, s) == [t |-> t, s |-> s]
NL == Tok("ws", "NL")
SP == Tok("ws", "SP")
LBrace == Tok("punct", "{")
RBrace == Tok("punct", "}")
LBracket == Tok("punct", "[")
RBracket == Tok("punct", "]")
Colon == Tok("punct", ":")
Comma == Tok("punct", ",")
TrueTok == Tok("lit", "true")
FalseTok == Tok("lit", "false")
NullTok == Tok("lit", "null")
\* a key that the object does not have (never on the wire)
Absent == Tok("absent", "")

IsWs(tok) == tok.t = "ws"
IsScalarTok(tok) == tok.t \in {"str", "lit", "num"}

\* bytes.strip() / str.strip(): drop leading and trailing whitespace
RECURSIVE StripLeft(_)
StripLeft(toks) ==
  IF toks # <<>> /\ IsWs(Head(toks)) THEN StripLeft(Tail(toks)) ELSE toks

RECURSIVE StripRight(_)
StripRight(toks) ==
  IF toks # <<>> /\ IsWs(toks[Len(toks)])
    THEN StripRight(SubSeq(toks, 1, Len(toks) - 1))
    ELSE toks

\* b"".join(chunks).strip()   (uipos.py:826)
BytesStripNone(toks) == toks
BytesStrip(toks) == StripRight(StripLeft(toks))

\* response.decode("utf-8", errors="replace").strip()   (uipos.py:831)
TextStrip(toks) == StripRight(StripLeft(toks))

\* json.loads(text): whitespace between tokens is insignificant; a document is
\* a scalar, a flat array of scalars or a flat object of string keys and
\* scalar values; anything else is a JSONDecodeError (ok = FALSE).
NoJson == [ok |-> FALSE, type |-> "none", members |-> <<>>]

WellFormedMembers(inner) ==
  /\ Len(inner) % 4 = 3
  /\ \A i \in 1..Len(inner) :
       CASE i % 4 = 1 -> inner[i].t = "str"
         [] i % 4 = 2 -> inner[i] = Colon
         [] i % 4 = 3 -> IsScalarTok(inner[i])
         [] OTHER -> inner[i] = Comma

WellFormedElements(inner) ==
  /\ Len(inner) % 2 = 1
  /\ \A i \in 1..Len(inner) :
       IF i % 2 = 1 THEN IsScalarTok(inner[i]) ELSE inner[i] = Comma

JsonLoads(text) ==
  LET body == SelectSeq(text, LAMBDA tok : ~IsWs(tok))
      n == Len(body)
      inner == SubSeq(body, 2, n - 1)
  IN IF n = 1 /\ IsScalarTok(body[1])
       THEN [ok |-> TRUE, type |-> "scalar", members |-> <<>>]
     ELSE IF n >= 2 /\ body[1] = LBrace /\ body[n] = RBrace
               /\ (inner = <<>> \/ WellFormedMembers(inner))
       THEN [ok |-> TRUE, type |-> "object",
             members |-> [j \in 1..((Len(inner) + 1) \div 4) |->
                            [k |-> inner[4 * j - 3].s, v |-> inner[4 * j - 1]]]]
     ELSE IF n >= 2 /\ body[1] = LBracket /\ body[n] = RBracket
               /\ (inner = <<>> \/ WellFormedElements(inner))
       THEN [ok |-> TRUE, type |-> "array", members |-> <<>>]
     ELSE NoJson

\* parsed.get(key): the value of the last member with that key, else None
DictGet(parsed, key) ==
  LET hits == {j \in 1..Len(parsed.members) : parsed.members[j].k = key}
  IN IF hits = {} THEN NullTok
     ELSE parsed.members[CHOOSE j \in hits : \A h \in hits : h <= j].v

\* Python truthiness of a JSON scalar
Truthy(tok) ==
  CASE tok.t = "lit" -> tok = TrueTok
    [] tok.t = "num" -> tok.s # "0"
    [] tok.t = "str" -> tok.s # ""
    [] OTHER -> FALSE

\* `a or b`
PyOr(a, b) == IF Truthy(a) THEN a ELSE b

\* str(reason) of a truthy JSON scalar
PyStr(tok) == IF tok = TrueTok THEN "True" ELSE tok.s

\* text.upper(), tabulated over the vocabulary of the model
UpperNone(str) == str
Upper(str) ==
  CASE str = "approved" -> "APPROVED"
    [] str = "success" -> "SUCCESS"
    [] str = "message" -> "MESSAGE"
    [] str = "responseText" -> "RESPONSETEXT"
    [] str = "insufficient funds" -> "INSUFFICIENT FUNDS"
    [] str = "try later" -> "TRY LATER"
    [] str = "false" -> "FALSE"
    [] str = "true" -> "TRUE"
    [] str = "null" -> "NULL"
    [] str = "Transaction Success" -> "TRANSACTION SUCCESS"
    [] str = "declined" -> "DECLINED"
    [] str = "Unsuccessful" -> "UNSUCCESSFUL"
    [] str = "hello" -> "HELLO"
    [] OTHER -> str

\* `keyword in upper`, tabulated: the keywords that occur in an upper-cased string
KeywordsIn(upper) ==
  CASE upper = "APPROVED" -> {"APPROVED"}
    [] upper = "SUCCESS" -> {"SUCCESS"}
    [] upper = "TRANSACTION SUCCESS" -> {"SUCCESS"}
    [] upper = "UNSUCCESSFUL" -> {"SUCCESS"}
    [] upper = "DECLINED" -> {"DECLINED"}
    [] upper = "DECLINED BY ISSUER" -> {"DECLINED"}
    [] upper = "FAILED" -> {"FAILED"}
    [] upper = "ERROR 51" -> {"ERROR"}
    [] upper = "NOT APPROVED - DECLINED" -> {"APPROVED", "DECLINED"}
    [] OTHER -> {}

\* the keywords found in text.upper()
KeywordsOfText(text) ==
  UNION { KeywordsIn(Upper(text[i].s)) : i \in 1..Len(text) }

\* the (approved, message) pair; `raised` is the exception that left instead
Outcome(approved, kind, str, text, raised) ==
  [approved |-> approved, kind |-> kind, str |-> str, text |-> text, raised |-> raised]

NoOutcome == Outcome(FALSE, "pending", "", <<>>, "none")

\* _interpret_linkly_response   (uipos.py:828-845)
InterpretLinklyResponse(response) ==
  IF response = <<>>
    THEN Outcome(FALSE, "NoResponse", "No response from Linkly.", <<>>, "none")
  ELSE
    LET text == TextStrip(response)
        parsed == JsonLoads(text)
        found == KeywordsOfText(text)
    IN IF ~parsed.ok
         THEN IF "APPROVED" \in found \/ "SUCCESS" \in found
                THEN Outcome(TRUE, "None", "", <<>>, "none")
              ELSE IF "DECLINED" \in found \/ "FAILED" \in found \/ "ERROR" \in found
                THEN Outcome(FALSE, "RawText", "", text, "none")
              ELSE Outcome(FALSE, "Unrecognized", "Unrecognized Linkly response: ", text,
                           "none")
       ELSE IF parsed.type # "object"
         THEN Outcome(FALSE, "pending", "", <<>>, "AttributeError")
       ELSE IF Truthy(PyOr(DictGet(parsed, "approved"), DictGet(parsed, "success")))
         THEN Outcome(TRUE, "None", "", <<>>, "none")
       ELSE
         LET reason == PyOr(DictGet(parsed, "message"), DictGet(parsed, "responseText"))
         IN IF Truthy(reason)
              THEN Outcome(FALSE, "Field", PyStr(reason), <<>>, "none")
              ELSE Outcome(FALSE, "Fallback", "Card payment declined.", <<>>, "none")

(***************************************************************************)
(* Terminal responses fed to the interpreter                               *)
(***************************************************************************)
SeqsUpTo(S, n) == UNION { [1..k -> S] : k \in 0..n }

FlagValues ==
  {Absent, TrueTok, FalseTok, NullTok, Tok("num", "0"), Tok("num", "1"),
   Tok("str", ""), Tok("str", "false")}
ReasonValues ==
  {Absent, NullTok, Tok("str", ""), Tok("str", "insufficient funds"),
   Tok("str", "try later"), Tok("str", "declined")}
RawWords ==
  {"APPROVED", "approved", "Transaction Success", "Unsuccessful", "DECLINED BY ISSUER",
   "declined", "FAILED", "ERROR 51", "hello", "NOT APPROVED - DECLINED"}
ScalarDocs == {TrueTok, FalseTok, NullTok, Tok("num", "1"), Tok("str", "approved")}

Doc(kind, ap, su, msg, rt, words, lead, trail) ==
  [kind |-> kind, approved |-> ap, success |-> su, message |-> msg,
   responseText |-> rt, words |-> words, lead |-> lead, trail |-> trail]

Docs ==
  { Doc("blank", Absent, Absent, Absent, Absent, <<>>, ws, <<>>) :
      ws \in SeqsUpTo({NL, SP}, MaxWs) }
  \cup
  { Doc(k, ap, su, msg, rt, <<>>, <<>>, tr) :
      k \in {"object", "truncated"}, ap \in FlagValues, su \in FlagValues,
      msg \in ReasonValues, rt \in ReasonValues, tr \in {<<>>, <<NL>>} }
  \cup
  { Doc("scalar", Absent, Absent, Absent, Absent, <<v>>, <<>>, tr) :
      v \in ScalarDocs, tr \in {<<>>, <<NL>>} }
  \cup
  { Doc("array", Absent, Absent, Absent, Absent, vs, <<>>, <<NL>>) :
      vs \in SeqsUpTo(ScalarDocs, 1) }
  \cup
  { Doc("text", Absent, Absent, Absent, Absent, ws, ld, tr) :
      ws \in SeqsUpTo(RawWords, MaxWords) \ {<<>>},
      ld \in {<<>>, <<SP>>}, tr \in {<<>>, <<NL>>} }

\* the members of a JSON object on the wire, keys the object lacks left out
RECURSIVE JoinMembers(_)
JoinMembers(pairs) ==
  IF pairs = <<>> THEN <<>>
  ELSE IF Head(pairs)[2] = Absent THEN JoinMembers(Tail(pairs))
  ELSE LET rest == JoinMembers(Tail(pairs))
           this == <<Tok("str", Head(pairs)[1]), Colon, SP, Head(pairs)[2]>>
       IN IF rest = <<>> THEN this ELSE this \o <<Comma, SP>> \o rest

RECURSIVE JoinWords(_)
JoinWords(words) ==
  IF words = <<>> THEN <<>>
  ELSE IF Len(words) = 1 THEN <<Tok("raw", words[1])>>
  ELSE <<Tok("raw", words[1]), SP>> \o JoinWords(Tail(words))

\* the bytes of a document without surrounding whitespace
DocBody(d) ==
  LET members == JoinMembers(<< <<"approved", d.approved>>, <<"success", d.success>>,
                               <<"message", d.message>>,
                               <<"responseText", d.responseText>> >>)
  IN CASE d.kind = "blank" -> <<>>
       [] d.kind = "object" -> <<LBrace>> \o members \o <<RBrace>>
       [] d.kind = "truncated" -> <<LBrace>> \o members
       [] d.kind = "scalar" -> d.words
       [] d.kind = "array" -> <<LBracket>> \o d.words \o <<RBracket>>
       [] OTHER -> JoinWords(d.words)

DocWire(d) == d.lead \o DocBody(d) \o d.trail

\* _read_linkly_response's return value handed to _interpret_linkly_response
InterpretReceived ==
  /\ UNCHANGED repoVars
  /\ ip_pc = "ready"
  /\ ip_out' = InterpretLinklyResponse(BytesStrip(in_wire))
  /\ ip_pc' = "done"
  /\ UNCHANGED <<in_doc, in_wire, saleVars, uiVars, linklyVars>>

InterpIdle ==
  /\ in_doc = Doc("blank", Absent, Absent, Absent, Absent, <<>>, <<>>, <<>>)
  /\ in_wire = <<>>
  /\ ip_pc = "done"
  /\ ip_out = NoOutcome

(***************************************************************************)
(* POSWindow: cart and payment flow, src/uipos.py:515-764                  *)
(***************************************************************************)
\* products.deduct_unit of the catalogue; 0 is a row without a deduct unit
DeductOf == [p \in ProductIds |-> IF p = 1 THEN 0 ELSE p]

\* quantities typed on the keypad
PadValues == {2}

\* the row fetch_product_by_barcode returns from the products table
ProductRow(p) ==
  [id |-> p, stock |-> stock[p], deduct_unit |-> DeductOf[p], sell_price |-> UnitPrice[p]]

\* where a running handle_payment lets the event loop run: dialog.exec_()
\* (uipos.py:678) and the processEvents() of an overlay that was just shown,
\* before the terminal exchange and before record_sale   (uipos.py:856)
EventsDispatched ==
  \/ hp_pc \in {"idle", "dialog"}
  \/ hp_pc = "connect" /\ lk_connects = 0
  \/ hp_pc = "saving" /\ rs_pc = "connect"

\* dialog.setWindowModality(QtCore.Qt.ApplicationModal)   (uipos.py:851)
OverlayNotModal == FALSE
OverlayModal == TRUE

\* a modal window keeps clicks and keys from the POS window: the payment
\* dialog, the overlay, the message box that ends the handler
InputBlocked ==
  \/ hp_pc \in {"dialog", "finished"}
  \/ hp_pc \in {"connect", "send", "recv", "saving"} /\ OverlayModal

\* a button of the POS window can be pressed and its handler runs
AcceptsInput == EventsDispatched /\ ~InputBlocked

\* quantities and stock are whole units; available_units and the tolerance of
\* _has_sufficient_stock are kept in millionths of a unit
Micro == 1000000

\* _has_sufficient_stock: qty <= stock / deduct_unit + 1e-6 (deduct_unit 1
\* when falsy)   (uipos.py:889-902)
HasSufficientStockIgnoresUnit(product, qty) == qty * Micro <= product.stock * Micro + 1
HasSufficientStock(product, qty) ==
  LET deduct_val == IF product.deduct_unit = 0 THEN 1 ELSE product.deduct_unit
      available_units == (product.stock * Micro) \div deduct_val
  IN qty * Micro <= available_units + 1

\* _can_use_qty: sufficient stock, or the operator answers Yes to the
\* "Insufficient stock" question   (uipos.py:863-887)
CanUseQty(product, qty, override) == HasSufficientStock(product, qty) \/ override

NoProduct == [id |-> 0, stock |-> 0, deduct_unit |-> 0, sell_price |-> 0]

NoAttempt ==
  [op |-> "none", row |-> 0, product |-> NoProduct, qty |-> 0, asked |-> FALSE,
   override |-> FALSE, before |-> <<>>]

\* a quantity request, as the handler saw it: the question is asked only when
\* the stock is insufficient, and `override` is the operator's Yes
Attempt(op, row, product, qty, override) ==
  [op |-> op, row |-> row, product |-> product, qty |-> qty,
   asked |-> ~HasSufficientStock(product, qty), override |-> override, before |-> cart]

\* handle_scanned_barcode -> _add_product_to_table: a new row with qty 1, or
\* nothing when _can_use_qty says no   (uipos.py:538-557)
AddProductToTable ==
  /\ UNCHANGED <<cacheVars, attVars, lk_more>>
  /\ AcceptsInput
  /\ qa.op = "none"
  /\ Len(cart) < MaxCart
  /\ \E p \in ProductIds, override \in BOOLEAN :
       /\ HasSufficientStock(ProductRow(p), 1) => ~override
       /\ cart' = IF CanUseQty(ProductRow(p), 1, override)
                    THEN Append(cart, [product |-> ProductRow(p), qty |-> 1,
                                       price |-> UnitPrice[p]])
                    ELSE cart
       /\ qa' = Attempt("add", Len(cart) + 1, ProductRow(p), 1, override)
  /\ UNCHANGED <<saleVars, interpVars, linklyVars, hp_pc, hp_total, hp_method,
                 hp_tendered, hp_outcome, hp_error, hp_sales0, hp_stock0>>

\* _pad_apply in mode "qty" on the selected row   (uipos.py:642-665)
PadApplyQty ==
  /\ UNCHANGED <<cacheVars, attVars, lk_more>>
  /\ AcceptsInput
  /\ qa.op = "none"
  /\ \E row \in 1..Len(cart), value \in PadValues, override \in BOOLEAN :
       /\ HasSufficientStock(cart[row].product, value) => ~override
       /\ cart' = IF CanUseQty(cart[row].product, value, override)
                    THEN [cart EXCEPT ![row].qty = value]
                    ELSE cart
       /\ qa' = Attempt("pad", row, cart[row].product, value, override)
  /\ UNCHANGED <<saleVars, interpVars, linklyVars, hp_pc, hp_total, hp_method,
                 hp_tendered, hp_outcome, hp_error, hp_sales0, hp_stock0>>

\* the handler of the quantity request has returned to the event loop
QtyRequestReturn ==
  /\ UNCHANGED <<cacheVars, attVars, lk_more>>
  /\ qa.op # "none"
  /\ qa' = NoAttempt
  /\ UNCHANGED <<saleVars, interpVars, uiVars, linklyVars>>

\* void_all_items
VoidAllItems ==
  /\ UNCHANGED repoVars
  /\ AcceptsInput
  /\ qa.op = "none"
  /\ cart # <<>>
  /\ cart' = <<>>
  /\ UNCHANGED <<saleVars, interpVars, linklyVars, hp_pc, hp_total, hp_method,
                 hp_tendered, hp_outcome, hp_error, hp_sales0, hp_stock0>>

\* _recalculate_totals / _current_total: the sum of qty * price over the rows
RECURSIVE CurrentTotal(_)
CurrentTotal(rows) ==
  IF rows = <<>> THEN 0
  ELSE Head(rows).qty * Head(rows).price + CurrentTotal(Tail(rows))

\* _collect_cart_items
CollectCartItems(rows) ==
  [i \in 1..Len(rows) |->
     [id |-> rows[i].product.id, qty |-> rows[i].qty, price |-> rows[i].price,
      amount |-> rows[i].qty * rows[i].price,
      deduct_unit |-> IF rows[i].product.deduct_unit = 0 THEN 1
                      ELSE rows[i].product.deduct_unit]]

NoError == [kind |-> "none", cause |-> "none"]

\* handle_payment up to dialog.exec_()   (uipos.py:672-678)
HandlePayment ==
  /\ UNCHANGED repoVars
  /\ AcceptsInput
  /\ qa.op = "none"
  /\ rs_pc = "idle"
  /\ cart # <<>>
  /\ Len(sales) + Len(cart) <= MaxSales
  /\ hp_total' = CurrentTotal(cart)
  /\ hp_pc' = "dialog"
  /\ hp_method' = "cash"
  /\ hp_tendered' = 0
  /\ hp_outcome' = "none"
  /\ hp_error' = NoError
  /\ hp_sales0' = sales
  /\ hp_stock0' = stock
  /\ lk_connects' = 0
  /\ lk_sends' = 0
  /\ lk_chunks' = <<>>
  /\ lk_sockErr' = "none"
  /\ lk_raised' = "none"
  /\ in_wire' = <<>>
  /\ ip_out' = NoOutcome
  /\ UNCHANGED <<saleVars, cart, in_doc, ip_pc>>

\* the handler returns without a sale
HpEndsWithout(outcome, error) ==
  /\ hp_pc' = "finished"
  /\ hp_outcome' = outcome
  /\ hp_error' = error
  /\ UNCHANGED <<saleVars, cart, hp_total, hp_sales0, hp_stock0>>

\* Cancel in the payment dialog   (uipos.py:678-679)
DialogReject ==
  /\ UNCHANGED repoVars
  /\ hp_pc = "dialog"
  /\ HpEndsWithout("cancelled", NoError)
  /\ UNCHANGED <<interpVars, linklyVars, hp_method, hp_tendered>>

\* PaymentDialog.accept closes the dialog   (payment_dialog.py:68-77)
DialogAccepts(method, tendered, total) == method = "card" \/ tendered >= total

\* `if tendered is None or tendered < total`   (uipos.py:684)
CashInsufficient(tendered, total) == tendered < total

\* what the operator may type as cash received
TenderChoices(total) ==
  LET due == IF total < 0 THEN 0 ELSE total
  IN {0, IF due > 0 THEN due - 1 ELSE 0, due, due + 1}

\* Submit in the payment dialog, cash   (uipos.py:680-690, 699-703)
DialogAcceptCash ==
  /\ UNCHANGED repoVars
  /\ hp_pc = "dialog"
  /\ \E tendered \in TenderChoices(hp_total) :
       /\ DialogAccepts("cash", tendered, hp_total)
       /\ hp_method' = "cash"
       /\ hp_tendered' = tendered
       /\ IF CashInsufficient(tendered, hp_total)
            THEN HpEndsWithout("insufficient", [kind |-> "Cash", cause |-> "none"])
            ELSE /\ RecordSaleEnter(CollectCartItems(cart), "cash", "handle_payment")
                 /\ hp_pc' = "saving"
                 /\ UNCHANGED <<cart, hp_total, hp_outcome, hp_error, hp_sales0, hp_stock0>>
  /\ UNCHANGED <<interpVars, linklyVars>>

\* Submit in the payment dialog, card: _process_card_payment up to
\* socket.create_connection   (uipos.py:691-692, 753-758, 800-803)
DialogAcceptCard ==
  /\ UNCHANGED repoVars
  /\ hp_pc = "dialog"
  /\ DialogAccepts("card", 0, hp_total)
  /\ hp_method' = "card"
  /\ hp_tendered' = 0
  /\ hp_pc' = "connect"
  /\ UNCHANGED <<saleVars, interpVars, linklyVars, cart, hp_total, hp_outcome, hp_error,
                 hp_sales0, hp_stock0>>

\* except (OSError, socket.timeout)   (uipos.py:807): every socket error is caught
CaughtOnlyTimeouts(err) == err \in {"connect_timeout", "send_timeout"}
Caught(err) == TRUE

\* a socket error inside _send_linkly_payload: wrapped into LinklyError, which
\* _process_card_payment turns into (False, str(exc)); an error the except
\* clause does not catch leaves handle_payment as it is
LkSocketError(err) ==
  /\ lk_sockErr' = err
  /\ IF Caught(err)
       THEN /\ lk_raised' = "LinklyError"
            /\ HpEndsWithout("linkly_error", [kind |-> "LinklyError", cause |-> err])
       ELSE /\ lk_raised' = "OSError"
            /\ HpEndsWithout("crashed", [kind |-> "OSError", cause |-> err])

\* where a failed connect leaves the exchange
ConnectFailureRetries(attempts) == IF attempts < 2 THEN "connect" ELSE "finished"
ConnectFailurePc(attempts) == "finished"

\* socket.create_connection((LINKLY_HOST, LINKLY_PORT), timeout=...)   (uipos.py:803)
LkConnect ==
  /\ UNCHANGED repoVars
  /\ hp_pc = "connect"
  /\ lk_connects' = lk_connects + 1
  /\ \E res \in {"ok", "connect_refused", "connect_timeout"} :
       IF res = "ok"
         THEN /\ hp_pc' = "send"
              /\ UNCHANGED <<saleVars, cart, hp_total, hp_outcome, hp_error, hp_sales0,
                             hp_stock0, lk_sockErr, lk_raised>>
       ELSE IF ConnectFailurePc(lk_connects') = "finished"
         THEN LkSocketError(res)
         ELSE /\ hp_pc' = ConnectFailurePc(lk_connects')
              /\ UNCHANGED <<saleVars, cart, hp_total, hp_outcome, hp_error, hp_sales0,
                             hp_stock0, lk_sockErr, lk_raised>>
  /\ UNCHANGED <<interpVars, hp_method, hp_tendered, lk_sends, lk_chunks>>

\* sock.sendall(message)   (uipos.py:805)
LkSend ==
  /\ UNCHANGED repoVars
  /\ hp_pc = "send"
  /\ lk_sends' = lk_sends + 1
  /\ \E res \in {"ok", "send_timeout", "send_reset"} :
       IF res = "ok"
         THEN /\ hp_pc' = "recv"
              /\ UNCHANGED <<saleVars, cart, hp_total, hp_outcome, hp_error, hp_sales0,
                             hp_stock0, lk_sockErr, lk_raised>>
         ELSE LkSocketError(res)
  /\ UNCHANGED <<interpVars, hp_method, hp_tendered, lk_connects, lk_chunks>>

\* what the terminal may deliver in one recv: a blank line, an approval, a
\* decline with its reason, the first and the second half of a decline split
\* over two chunks, a textual decline, and a JSON document that is no object
PeerChunks ==
  { <<NL>>,
    <<LBrace, Tok("str", "approved"), Colon, TrueTok, RBrace, NL>>,
    <<LBrace, Tok("str", "success"), Colon, FalseTok, Comma, Tok("str", "message"),
      Colon, Tok("str", "insufficient funds"), RBrace, NL>>,
    <<LBrace, Tok("str", "approved"), Colon>>,
    <<FalseTok, RBrace, NL>>,
    <<Tok("raw", "DECLINED BY ISSUER"), NL>>,
    <<Tok("num", "1"), NL>> }

HasNewline(chunk) == \E i \in 1..Len(chunk) : chunk[i] = NL

RECURSIVE JoinChunks(_)
JoinChunks(chunks) ==
  IF chunks = <<>> THEN <<>> ELSE Head(chunks) \o JoinChunks(Tail(chunks))

\* `if not approved: return False, message`   (uipos.py:761-764)
CardApprovedAlways(out) == TRUE
CardApproved(out) == out.approved

\* the read loop has ended: _read_linkly_response returns the trimmed bytes,
\* _interpret_linkly_response decides, and handle_payment goes on to
\* record_sale only when the card was approved   (uipos.py:826, 761-764, 695-703)
LkResponseRead(chunks) ==
  LET out == InterpretLinklyResponse(BytesStrip(JoinChunks(chunks)))
  IN /\ in_wire' = JoinChunks(chunks)
     /\ ip_out' = out
     /\ lk_raised' = "none"
     /\ IF out.raised # "none"
          THEN HpEndsWithout("crashed", [kind |-> out.raised, cause |-> "none"])
        ELSE IF ~CardApproved(out)
          THEN HpEndsWithout("declined", [kind |-> out.kind, cause |-> "none"])
        ELSE /\ RecordSaleEnter(CollectCartItems(cart), "card", "handle_payment")
             /\ hp_pc' = "saving"
             /\ UNCHANGED <<cart, hp_total, hp_outcome, hp_error, hp_sales0, hp_stock0>>

\* one sock.recv(4096) of the loop of _read_linkly_response   (uipos.py:814-826)
LkRecv ==
  /\ UNCHANGED repoVars
  /\ hp_pc = "recv"
  /\ \/ \E chunk \in PeerChunks :
          /\ Len(lk_chunks) < MaxChunks
          /\ lk_chunks' = Append(lk_chunks, chunk)
          /\ IF HasNewline(chunk)
               THEN LkResponseRead(lk_chunks') /\ UNCHANGED lk_sockErr
               ELSE UNCHANGED <<saleVars, cart, hp_pc, hp_total, hp_outcome, hp_error,
                                hp_sales0, hp_stock0, in_wire, ip_out, lk_sockErr,
                                lk_raised>>
     \/ \E res \in {"read_timeout", "closed"} :
          /\ lk_sockErr' = IF res = "read_timeout" THEN res ELSE lk_sockErr
          /\ LkResponseRead(lk_chunks)
          /\ UNCHANGED lk_chunks
     \/ /\ LkSocketError("read_reset")
        /\ UNCHANGED <<lk_chunks, in_wire, ip_out>>
  /\ UNCHANGED <<in_doc, ip_pc, hp_method, hp_tendered, lk_connects, lk_sends>>

\* the loop of _read_linkly_response goes on after the chunks the model
\* keeps: one more recv returns a chunk without a newline, which is appended
\* and the loop repeats   (uipos.py:816-825)
LkRecvMore ==
  /\ UNCHANGED <<cacheVars, attVars, qa>>
  /\ hp_pc = "recv"
  /\ Len(lk_chunks) = MaxChunks
  /\ \E chunk \in PeerChunks : ~HasNewline(chunk)
  /\ lk_more' = 1 - lk_more
  /\ UNCHANGED <<saleVars, interpVars, uiVars, linklyVars>>

\* record_sale has returned or raised   (uipos.py:703-712)
HpSaved ==
  /\ UNCHANGED repoVars
  /\ hp_pc = "saving"
  /\ rs_pc = "done"
  /\ hp_pc' = "finished"
  /\ CASE rs_ret = "True" ->
            /\ cart' = <<>>
            /\ hp_outcome' = "saved"
            /\ hp_error' = NoError
       [] rs_ret = "False" ->
            /\ hp_outcome' = "not_saved"
            /\ hp_error' = [kind |-> "Could not store sale.", cause |-> "none"]
            /\ UNCHANGED cart
       [] rs_ret = "DatabaseError" ->
            /\ hp_outcome' = "store_failed"
            /\ hp_error' = [kind |-> "DatabaseError", cause |-> rs_failedAt]
            /\ UNCHANGED cart
       [] OTHER ->
            /\ hp_outcome' = "crashed"
            /\ hp_error' = [kind |-> rs_ret, cause |-> rs_failedAt]
            /\ UNCHANGED cart
  /\ UNCHANGED <<saleVars, interpVars, linklyVars, hp_total, hp_method, hp_tendered,
                 hp_sales0, hp_stock0>>

UiIdle ==
  /\ hp_pc = "idle"
  /\ hp_total = 0
  /\ hp_method = "cash"
  /\ hp_tendered = 0
  /\ hp_outcome = "none"
  /\ hp_error = NoError
  /\ hp_sales0 = <<>>
  /\ hp_stock0 = stock
  /\ lk_connects = 0
  /\ lk_sends = 0
  /\ lk_chunks = <<>>
  /\ lk_sockErr = "none"
  /\ lk_raised = "none"
  /\ qa = NoAttempt
  /\ lk_more = 0

\* handle_payment is over: control is back in the event loop
HpReturn ==
  /\ UNCHANGED repoVars
  /\ hp_pc = "finished"
  /\ UNCHANGED <<sales, stock, poolOut, inTx, txSales, txStock, cart, in_doc, ip_pc>>
  /\ hp_pc' = "idle"
  /\ hp_total' = 0
  /\ hp_method' = "cash"
  /\ hp_tendered' = 0
  /\ hp_outcome' = "none"
  /\ hp_error' = NoError
  /\ hp_sales0' = <<>>
  /\ hp_stock0' = stock
  /\ lk_connects' = 0
  /\ lk_sends' = 0
  /\ lk_chunks' = <<>>
  /\ lk_sockErr' = "none"
  /\ lk_raised' = "none"
  /\ in_wire' = <<>>
  /\ ip_out' = NoOutcome
  /\ RsFrameReset

(***************************************************************************)
(* Product cache, src/model.py:214-254 and 391-412                         *)
(***************************************************************************)
\* Strings of the cache (names, barcodes, queries) are sequences of characters.
NoneStr == <<"N", "o", "n", "e">>

\* a barcode value: SQL NULL / JSON null / Python None, or a string
BcNone == [null |-> TRUE, s |-> <<>>]
Bc(s) == [null |-> FALSE, s |-> s]

\* str(product.get("barcode"))
StrOfBarcode(b) == IF b.null THEN NoneStr ELSE b.s

\* truthiness of product.get("barcode")
TruthyBarcode(b) == ~b.null /\ b.s # <<>>

\* a product: barcode, name, and `ver` standing for the columns that change
\* (stock, prices); num is the type the numeric columns are held in
Product(b, name, ver) == [barcode |-> b, name |-> name, ver |-> ver, num |-> "float"]

Tea(v) == Product(Bc(<<"1", "2">>), <<"T", "e", "a">>, v)
Bag == Product(Bc(<<"2">>), <<"b", "a", "g">>, 2)
Nut(v) == Product(BcNone, <<"N", "u", "t">>, v)
Egg == Product(Bc(<<>>), <<"E", "g", "g">>, 2)

\* what a cache file may hold: current and stale snapshots, with and without barcode
Entries == {Tea(1), Tea(2), Bag, Nut(2), Egg}

\* products handed to a merge: two snapshots of one barcode, a product without
\* barcode and one with an empty barcode
MergeEntries == {Tea(1), Tea(2), Nut(2), Egg}

\* a row as the driver returns it: DECIMAL columns arrive as Decimal
Row(p) == [p EXCEPT !.num = "Decimal"]

\* _normalize_product: float(...) of stock, cost_price, sell_price, gst_rate
NormalizeProduct(row) == [row EXCEPT !.num = "float"]

NormalizeAll(rows) == [i \in 1..Len(rows) |-> NormalizeProduct(rows[i])]

\* contents of table `products` the lookups are run against
SourceTables ==
  { <<>>,
    <<Row(Tea(2))>>,
    <<Row(Tea(2)), Row(Bag)>>,
    <<Row(Egg), Row(Nut(2)), Row(Tea(2))>> }

\* the backing file: missing, not readable, not JSON, JSON but no list, or a list
CacheFile(state, content) == [state |-> state, content |-> content]

CacheFiles(n) ==
  { CacheFile(st, <<>>) : st \in {"missing", "unreadable", "garbage", "nonlist"} }
  \cup { CacheFile("list", c) : c \in SeqsUpTo(Entries, n) }

\* self.cache_path.exists()
Exists(f) == f.state # "missing"

\* what open(...) / json.load(f) raise on this file
ReadError(f) ==
  CASE f.state = "unreadable" -> "OSError"
    [] f.state = "garbage" -> "JSONDecodeError"
    [] OTHER -> "none"

\* `except Exception`   (model.py:222)
LoadCatchesOnlyJson(exc) == exc = "JSONDecodeError"
LoadCatches(exc) == TRUE

\* load_cache: the value returned, or the exception that escapes
LoadCacheCall(f) ==
  IF ~Exists(f) THEN [raised |-> "none", value |-> <<>>]
  ELSE IF ReadError(f) # "none"
    THEN IF LoadCatches(ReadError(f))
           THEN [raised |-> "none", value |-> <<>>]
           ELSE [raised |-> ReadError(f), value |-> <<>>]
  ELSE IF f.state = "list" THEN [raised |-> "none", value |-> f.content]
  ELSE [raised |-> "none", value |-> <<>>]

LoadCache(f) == LoadCacheCall(f).value

\* how a write of the file can go: through; open(..., "w") fails and the file
\* is left as it was; json.dump fails after the file was truncated
WriteFaults == {"none", "open", "dump"}

\* save_cache: every failure is swallowed
SaveCache(f, products, fault) ==
  CASE fault = "none" -> CacheFile("list", products)
    [] fault = "open" -> f
    [] OTHER -> CacheFile("garbage", <<>>)

\* _find_in_cache_by_barcode: the first entry whose str(barcode) equals the
\* code, as a sequence of zero or one product
FindInCacheByBarcode(f, barcode) ==
  IF barcode = <<>> THEN <<>>
  ELSE LET c == LoadCache(f)
           hits == {i \in 1..Len(c) : StrOfBarcode(c[i].barcode) = barcode}
       IN IF hits = {} THEN <<>>
          ELSE <<c[CHOOSE i \in hits : \A h \in hits : i <= h]>>

\* str.lower()
Lower(ch) ==
  CASE ch = "T" -> "t"
    [] ch = "N" -> "n"
    [] ch = "E" -> "e"
    [] ch = "B" -> "b"
    [] OTHER -> ch

LowerStr(s) == [i \in 1..Len(s) |-> Lower(s[i])]

\* `needle in hay`
Contains(needle, hay) ==
  \E i \in 0..(Len(hay) - Len(needle)) : SubSeq(hay, i + 1, i + Len(needle)) = needle

\* str.strip()
RECURSIVE StripStr(_)
StripStr(s) ==
  IF s = <<>> THEN s
  ELSE IF Head(s) = " " THEN StripStr(Tail(s))
  ELSE IF s[Len(s)] = " " THEN StripStr(SubSeq(s, 1, Len(s) - 1))
  ELSE s

\* the test of the loop of search_cache
CacheMatch(product, queryLower) ==
  \/ Contains(queryLower, LowerStr(product.name))
  \/ Contains(queryLower, LowerStr(StrOfBarcode(product.barcode)))

\* the loop of search_cache: append on a match, stop once len(results) >= limit
RECURSIVE ScanCache(_, _, _, _)
ScanCache(c, queryLower, limit, results) ==
  IF c = <<>> THEN results
  ELSE LET r2 == IF CacheMatch(Head(c), queryLower) THEN Append(results, Head(c))
                 ELSE results
       IN IF Len(r2) >= limit THEN r2 ELSE ScanCache(Tail(c), queryLower, limit, r2)

\* search_cache
SearchCache(f, query, limit) ==
  IF query = <<>> THEN <<>> ELSE ScanCache(LoadCache(f), LowerStr(query), limit, <<>>)

\* a dict in insertion order: cache[key] = value
DictPutAppends(d, k, v) == Append(d, [k |-> k, v |-> v])
DictPut(d, k, v) ==
  IF \E i \in 1..Len(d) : d[i].k = k
    THEN [i \in 1..Len(d) |-> IF d[i].k = k THEN [k |-> k, v |-> v] ELSE d[i]]
    ELSE Append(d, [k |-> k, v |-> v])

\* {str(p.get("barcode")): p for p in self.load_cache() if p.get("barcode")}
KeptOnLoad(p) == TruthyBarcode(p.barcode)

RECURSIVE DictOfCache(_, _)
DictOfCache(c, d) ==
  IF c = <<>> THEN d
  ELSE DictOfCache(Tail(c),
                   IF KeptOnLoad(Head(c))
                     THEN DictPut(d, StrOfBarcode(Head(c).barcode), Head(c))
                     ELSE d)

\* barcode = str(product.get("barcode")); if barcode: cache[barcode] = product
RECURSIVE DictMerge(_, _)
DictMerge(d, products) ==
  IF products = <<>> THEN d
  ELSE DictMerge(IF StrOfBarcode(Head(products).barcode) # <<>>
                   THEN DictPut(d, StrOfBarcode(Head(products).barcode), Head(products))
                   ELSE d,
                 Tail(products))

DictValues(d) == [i \in 1..Len(d) |-> d[i].v]

\* the list _merge_into_cache hands to save_cache
MergedList(c, products) == DictValues(DictMerge(DictOfCache(c, <<>>), products))

\* `if not products: return`   (model.py:393)
MergeSkips(products) == products = <<>>

\* _merge_into_cache
MergeIntoCache(f, products, fault) ==
  IF MergeSkips(products) THEN f
  ELSE SaveCache(f, MergedList(LoadCache(f), products), fault)

(***************************************************************************)
(* Product repository, src/model.py:144-212 and 256-262                    *)
(***************************************************************************)
\* whether the query of a lookup goes through or the driver raises
DbFaults == {"none", "error"}

\* WHERE barcode = %s LIMIT 1 (NULL equals nothing)
SelectByBarcode(src, barcode) ==
  LET hits == {i \in 1..Len(src) : ~src[i].barcode.null /\ src[i].barcode.s = barcode}
  IN IF hits = {} THEN <<>> ELSE <<src[CHOOSE i \in hits : \A h \in hits : i <= h]>>

\* column LIKE '%query%' under the connection's utf8mb4_unicode_ci collation
Like(query, column) == Contains(LowerStr(query), LowerStr(column))

LikeNameOrBarcode(row, query) ==
  \/ Like(query, row.name)
  \/ ~row.barcode.null /\ Like(query, row.barcode.s)

\* the names of the catalogue in ORDER BY name ASC order
NameOrder == << <<"b", "a", "g">>, <<"E", "g", "g">>, <<"N", "u", "t">>, <<"T", "e", "a">> >>

RECURSIVE SortByName(_, _)
SortByName(rows, k) ==
  IF k > Len(NameOrder) THEN <<>>
  ELSE SelectSeq(rows, LAMBDA r : r.name = NameOrder[k]) \o SortByName(rows, k + 1)

Take(s, n) == IF Len(s) <= n THEN s ELSE SubSeq(s, 1, n)

\* WHERE name LIKE %s OR barcode LIKE %s ORDER BY name ASC LIMIT %s
SelectLike(src, query, limit) ==
  Take(SortByName(SelectSeq(src, LAMBDA r : LikeNameOrBarcode(r, query)), 1), limit)

\* what a repository call hands back: the cache file it leaves, the value it
\* returns (a list; fetch returns zero or one product), the exception it
\* raised, the queries it ran and the connections it checked out
Answer(f, ret, raised, queries, conns, hit) ==
  [file |-> f, ret |-> ret, raised |-> raised, queries |-> queries, conns |-> conns,
   hit |-> hit]

\* `if cached: return cached`   (model.py:147-148)
FetchHitNever(cached) == FALSE
FetchHit(cached) == cached # <<>>

\* `if product: self._merge_into_cache([product])`   (model.py:161-162)
FetchStoresNothing(f, product, fault) == f
FetchStores(f, product, fault) ==
  IF product # <<>> THEN MergeIntoCache(f, product, fault) ELSE f

\* fetch_product_by_barcode
FetchProductByBarcode(f, src, barcode, db, fault) ==
  LET cached == FindInCacheByBarcode(f, barcode)
      product == NormalizeAll(SelectByBarcode(src, barcode))
  IN IF FetchHit(cached) THEN Answer(f, cached, "none", 0, 0, TRUE)
     ELSE IF db # "none" THEN Answer(f, <<>>, "MySQLError", 1, 1, FALSE)
     ELSE Answer(FetchStores(f, product, fault), product, "none", 1, 1, FALSE)

\* `if cached_results: return cached_results`   (model.py:172-173)
SearchAlwaysFallsBack(cached) == TRUE
SearchFallsBack(cached) == cached = <<>>

\* search_products
SearchProducts(f, src, query, limit, db, fault) ==
  LET q == StripStr(query)
      cached == SearchCache(f, q, limit)
      products == NormalizeAll(SelectLike(src, q, limit))
  IN IF ~SearchFallsBack(cached) THEN Answer(f, cached, "none", 0, 0, TRUE)
     ELSE IF db # "none" THEN Answer(f, <<>>, "MySQLError", 1, 1, FALSE)
     ELSE Answer(IF products # <<>> THEN MergeIntoCache(f, products, fault) ELSE f,
                 products, "none", 1, 1, FALSE)

\* fetch_all_products: SELECT ... FROM products
FetchAllProducts(src) == NormalizeAll(src)

\* `if self.cache_path.exists() and not force_refresh`   (model.py:197)
PrimeIgnoresForce(f, force) == Exists(f)
PrimeUsesCache(f, force) == Exists(f) /\ ~force

\* self.save_cache(products)   (model.py:200)
PrimeStoreMerges(f, products, fault) == MergeIntoCache(f, products, fault)
PrimeStore(f, products, fault) == SaveCache(f, products, fault)

\* prime_cache
PrimeCache(f, src, force, db, fault) ==
  IF PrimeUsesCache(f, force) THEN Answer(f, LoadCache(f), "none", 0, 0, TRUE)
  ELSE IF db # "none" THEN Answer(f, <<>>, "MySQLError", 1, 1, FALSE)
  ELSE Answer(PrimeStore(f, FetchAllProducts(src), fault), FetchAllProducts(src),
              "none", 1, 1, FALSE)

\* refresh_cache
RefreshCache(f, src, db, fault) == PrimeCache(f, src, TRUE, db, fault)

\* ---- the calls of the repository, one at a time ----
FetchCodes == {<<"1", "2">>, <<"2">>, NoneStr, <<>>, <<"9">>}

SearchQueries == {<<>>, <<"t">>, <<"a">>, <<"o">>, <<" ", "2">>}

Limits == {1, 2}

NoCall ==
  [op |-> "none", q |-> <<>>, limit |-> 0, force |-> FALSE, products |-> <<>>,
   db |-> "none", fault |-> "none", before |-> CacheFile("missing", <<>>),
   src |-> <<>>, ret |-> <<>>, raised |-> "none", queries |-> 0, conns |-> 0,
   hit |-> FALSE]

\* a call returns: the file is what the call left, and c_last records the call
\* with what it saw
CacheCall(op, q, limit, force, products, db, fault, ans) ==
  /\ c_last.op = "none"
  /\ (ans.queries = 0 /\ op # "merge") => (db = "none" /\ fault = "none")
  /\ (db # "none" \/ op = "load") => fault = "none"
  /\ cacheFile' = ans.file
  /\ c_last' = [op |-> op, q |-> q, limit |-> limit, force |-> force,
                products |-> products, db |-> db, fault |-> fault,
                before |-> cacheFile, src |-> source, ret |-> ans.ret,
                raised |-> ans.raised, queries |-> ans.queries, conns |-> ans.conns,
                hit |-> ans.hit]

ApiLoadCache ==
  /\ CacheCall("load", <<>>, 0, FALSE, <<>>, "none", "none",
               Answer(cacheFile, LoadCacheCall(cacheFile).value,
                      LoadCacheCall(cacheFile).raised, 0, 0, FALSE))
  /\ UNCHANGED <<source, attVars, posVars>>

ApiMergeIntoCache ==
  /\ \E products \in SeqsUpTo(MergeEntries, MaxCache), fault \in WriteFaults :
       CacheCall("merge", <<>>, 0, FALSE, products, "none", fault,
                 Answer(MergeIntoCache(cacheFile, products, fault), <<>>, "none", 0, 0,
                        FALSE))
  /\ UNCHANGED <<source, attVars, posVars>>

ApiFetchProductByBarcode ==
  /\ \E barcode \in FetchCodes, db \in DbFaults, fault \in WriteFaults :
       CacheCall("fetch", barcode, 0, FALSE, <<>>, db, fault,
                 FetchProductByBarcode(cacheFile, source, barcode, db, fault))
  /\ UNCHANGED <<source, attVars, posVars>>

ApiSearchProducts ==
  /\ \E query \in SearchQueries, limit \in Limits, db \in DbFaults,
        fault \in WriteFaults :
       CacheCall("search", query, limit, FALSE, <<>>, db, fault,
                 SearchProducts(cacheFile, source, query, limit, db, fault))
  /\ UNCHANGED <<source, attVars, posVars>>

\* search_cache called directly, limit 0 included   (model.py:242-254)
ApiSearchCache ==
  /\ \E query \in SearchQueries, limit \in {0} \cup Limits :
       CacheCall("search_cache", query, limit, FALSE, <<>>, "none", "none",
                 Answer(cacheFile, SearchCache(cacheFile, query, limit), "none", 0, 0,
                        FALSE))
  /\ UNCHANGED <<source, attVars, posVars>>

ApiPrimeCache ==
  /\ \E force \in BOOLEAN, db \in DbFaults, fault \in WriteFaults :
       CacheCall("prime", <<>>, 0, force, <<>>, db, fault,
                 PrimeCache(cacheFile, source, force, db, fault))
  /\ UNCHANGED <<source, attVars, posVars>>

ApiRefreshCache ==
  /\ \E db \in DbFaults, fault \in WriteFaults :
       CacheCall("refresh", <<>>, 0, TRUE, <<>>, db, fault,
                 RefreshCache(cacheFile, source, db, fault))
  /\ UNCHANGED <<source, attVars, posVars>>

\* the caller has looked at what the call returned
ApiCacheReturn ==
  /\ c_last.op # "none"
  /\ c_last' = NoCall
  /\ UNCHANGED <<cacheFile, source, attVars, posVars>>

\* the products table changes between two calls (sales, back office)
SourceChanges ==
  /\ c_last.op = "none"
  /\ \E t \in SourceTables : t # source /\ source' = t
  /\ UNCHANGED <<cacheFile, c_last, attVars, posVars>>

CacheIdle ==
  /\ cacheFile = CacheFile("missing", <<>>)
  /\ source = <<>>
  /\ c_last = NoCall

(***************************************************************************)
(* Attendance, src/model.py:277-329 and src/uipos.py:905-964               *)
(***************************************************************************)
StaffIds == {1, 2}

\* time_out of a row that was inserted without it (SQL NULL)
NullTime == -1

\* CURDATE() and CURTIME() at tick t
CurDate(t) == t \div TicksPerDay
CurTime(t) == t % TicksPerDay

\* INSERT INTO attendance (staff_id, time_in, date, ...) VALUES (%s, CURTIME(), CURDATE(), ...)
ClockIn(att, staff, t) ==
  Append(att, [staff |-> staff, date |-> CurDate(t), time_in |-> CurTime(t),
               time_out |-> NullTime])

\* UPDATE attendance SET time_out = CURTIME() WHERE id = %s
ClockOut(att, id, t) ==
  IF id \in 1..Len(att) THEN [att EXCEPT ![id].time_out = CurTime(t)] ELSE att

\* get_today_attendance: ... WHERE staff_id = %s AND date = CURDATE()
\* ORDER BY id DESC LIMIT 1; the id and time_out of the row, id 0 for none
NoAttendance == [id |-> 0, time_out |-> NullTime]

GetTodayAttendance(att, staff, t) ==
  LET ids == {i \in 1..Len(att) : att[i].staff = staff /\ att[i].date = CurDate(t)}
  IN IF ids = {} THEN NoAttendance
     ELSE LET last == CHOOSE i \in ids : \A j \in ids : j <= i
          IN [id |-> last, time_out |-> att[last].time_out]

\* `today_att and not today_att.get("time_out")`   (uipos.py:939): None and
\* a zero time are falsy
ClocksOutNever(today) == FALSE
ClocksOut(today) == today.id # 0 /\ (today.time_out = NullTime \/ today.time_out = 0)

NoAttCall == [op |-> "none", staff |-> 0, id |-> 0, ok |-> FALSE]

HcIdle == hc_pc = "idle" /\ hc_staff = 0 /\ hc_today = NoAttendance

\* handle_clock_action up to the accepted password dialog   (uipos.py:905-921)
HandleClockAction ==
  /\ hc_pc = "idle"
  /\ hc_pc' = "auth"
  /\ UNCHANGED <<attendance, now, hc_staff, hc_today, a_last, cacheVars, posVars>>

\* verify_staff_credentials   (uipos.py:923-931)
HcVerify ==
  /\ hc_pc = "auth"
  /\ \/ \E s \in StaffIds : hc_staff' = s /\ hc_pc' = "lookup"
     \/ hc_pc' = "idle" /\ UNCHANGED hc_staff
  /\ UNCHANGED <<attendance, now, hc_today, a_last, cacheVars, posVars>>

\* get_today_attendance   (uipos.py:933-937)
HcLookup ==
  /\ hc_pc = "lookup"
  /\ \/ /\ hc_today' = GetTodayAttendance(attendance, hc_staff, now)
        /\ hc_pc' = "act"
        /\ UNCHANGED hc_staff
     \/ hc_pc' = "idle" /\ hc_staff' = 0 /\ UNCHANGED hc_today
  /\ UNCHANGED <<attendance, now, a_last, cacheVars, posVars>>

\* the clock-out or clock-in branch; a failing statement is rolled back
\* (uipos.py:939-964, model.py:290-329)
HcAct ==
  /\ hc_pc = "act"
  /\ \E ok \in BOOLEAN :
       IF ClocksOut(hc_today)
         THEN /\ attendance' = IF ok THEN ClockOut(attendance, hc_today.id, now)
                               ELSE attendance
              /\ a_last' = [op |-> "clock_out", staff |-> hc_staff,
                            id |-> hc_today.id, ok |-> ok]
         ELSE /\ Len(attendance) < MaxRows
              /\ attendance' = IF ok THEN ClockIn(attendance, hc_staff, now)
                               ELSE attendance
              /\ a_last' = [op |-> "clock_in", staff |-> hc_staff,
                            id |-> IF ok THEN Len(attendance) + 1 ELSE 0, ok |-> ok]
  /\ hc_pc' = "idle"
  /\ hc_staff' = 0
  /\ hc_today' = NoAttendance
  /\ UNCHANGED <<now, cacheVars, posVars>>

\* the database clock advances, at any point of a handler
Tick ==
  /\ now < MaxNow
  /\ now' = now + 1
  /\ UNCHANGED <<attendance, hc_pc, hc_staff, hc_today, a_last, cacheVars, posVars>>

\* clock_in called directly   (model.py:290-309)
ApiClockIn ==
  /\ hc_pc = "idle"
  /\ Len(attendance) < MaxRows
  /\ \E s \in StaffIds, ok \in BOOLEAN :
       /\ attendance' = IF ok THEN ClockIn(attendance, s, now) ELSE attendance
       /\ a_last' = [op |-> "clock_in", staff |-> s,
                     id |-> IF ok THEN Len(attendance) + 1 ELSE 0, ok |-> ok]
  /\ UNCHANGED <<now, hc_pc, hc_staff, hc_today, cacheVars, posVars>>

\* clock_out called directly   (model.py:311-329)
ApiClockOut ==
  /\ hc_pc = "idle"
  /\ \E id \in 1..MaxRows, ok \in BOOLEAN :
       /\ attendance' = IF ok THEN ClockOut(attendance, id, now) ELSE attendance
       /\ a_last' = [op |-> "clock_out", staff |-> 0, id |-> id,
                     ok |-> ok /\ id <= Len(attendance)]
  /\ UNCHANGED <<now, hc_pc, hc_staff, hc_today, cacheVars, posVars>>

AttIdle ==
  /\ attendance = <<>>
  /\ now = 1
  /\ HcIdle
  /\ a_last = NoAttCall

(***************************************************************************)
(* Specifications                                                          *)
(***************************************************************************)
Init == SaleInit /\ InterpIdle /\ cart = <<>> /\ UiIdle /\ CacheIdle /\ AttIdle

\* the POS window: cart handling and the payment flow
Next ==
  \/ AddProductToTable \/ PadApplyQty \/ QtyRequestReturn \/ VoidAllItems
  \/ HandlePayment \/ DialogReject \/ DialogAcceptCash \/ DialogAcceptCard
  \/ LkConnect \/ LkSend \/ LkRecv
  \/ RsConnect \/ RsBegin \/ RsInsert \/ RsUpdate \/ RsCommit
  \/ HpSaved \/ HpReturn

Spec == Init /\ [][Next]_vars

\* record_sale driven through the repository's query surface
SaleNext == ApiRecordSale \/ ApiRecordSaleReturn \/ RsConnect \/ RsBegin \/ RsInsert
              \/ RsUpdate \/ RsCommit

SaleSpec == Init /\ [][SaleNext]_vars

\* the POS window with a terminal that may go on sending
ReadNext == Next \/ LkRecvMore

\* a sock.recv of the loop that returns with an error from the peer
\* (uipos.py:818-819)
LkRecvReset ==
  /\ UNCHANGED repoVars
  /\ hp_pc = "recv"
  /\ LkSocketError("read_reset")
  /\ UNCHANGED <<lk_chunks, in_wire, ip_out>>
  /\ UNCHANGED <<in_doc, ip_pc, hp_method, hp_tendered, lk_connects, lk_sends>>

\* every sock.recv returns within the socket timeout, so a read loop that is
\* not left keeps taking recv steps.  Both actions named are enabled exactly
\* while the loop runs; the recv steps of LkRecv that stay in the loop are
\* bounded by MaxChunks, so the behaviours that stay in it are those with
\* endlessly many LkRecvMore steps
ReadSpec == Init /\ [][ReadNext]_vars /\ WF_vars(LkRecvReset \/ LkRecvMore)

\* the response interpreter applied to every response of Docs
InterpInit ==
  /\ SaleInit
  /\ cart = <<>>
  /\ UiIdle
  /\ in_doc \in Docs
  /\ in_wire = DocWire(in_doc)
  /\ ip_pc = "ready"
  /\ ip_out = NoOutcome
  /\ CacheIdle
  /\ AttIdle

InterpNext == InterpretReceived

InterpSpec == InterpInit /\ [][InterpNext]_vars

\* the repository called on every cache file of CacheFiles and every table
CacheInit ==
  /\ SaleInit
  /\ InterpIdle
  /\ cart = <<>>
  /\ UiIdle
  /\ AttIdle
  /\ cacheFile \in CacheFiles(MaxCache)
  /\ source \in SourceTables
  /\ c_last = NoCall

CacheNext ==
  \/ ApiLoadCache \/ ApiMergeIntoCache \/ ApiFetchProductByBarcode
  \/ ApiSearchProducts \/ ApiSearchCache \/ ApiPrimeCache \/ ApiRefreshCache \/ ApiCacheReturn
  \/ SourceChanges

CacheSpec == CacheInit /\ [][CacheNext]_vars

\* the clock button of the POS window
AttNext == HandleClockAction \/ HcVerify \/ HcLookup \/ HcAct \/ Tick

AttSpec == Init /\ [][AttNext]_vars

\* clock_in and clock_out called directly
AttApiNext == ApiClockIn \/ ApiClockOut \/ Tick

AttApiSpec == Init /\ [][AttApiNext]_vars

(***************************************************************************)
(* Claims about record_sale, checked under SaleSpec                        *)
(***************************************************************************)
RsRaised == rs_pc = "done" /\ rs_ret \in {"DatabaseError", "MySQLError"}

\* C1: record_sale is all-or-nothing. Whenever the call ends with an error the
\* committed sales table and every product's stock equal what they were when the
\* call started; a failure of a sale-row insert or of a stock update is reported
\* as DatabaseError; and at no moment of a call does the committed state hold
\* only part of the batch.
RecordSaleAllOrNothing ==
  /\ RsRaised => (sales = pre_sales /\ stock = pre_stock)
  /\ (rs_pc = "done" /\ rs_failedAt \in {"insert", "update"}) => rs_ret = "DatabaseError"
  /\ rs_pc # "idle" =>
       \/ sales = pre_sales /\ stock = pre_stock
       \/ rs_ret = "True" /\ Len(sales) = Len(pre_sales) + Len(rs_items)

\* the second item's insert failed after the first item's insert and stock
\* update had been executed inside the transaction
RecordSaleRolledBack ==
  /\ rs_pc = "done"
  /\ rs_failedAt = "insert"
  /\ rs_i = 2
  /\ rs_ret = "DatabaseError"
  /\ UpdateStock(pre_stock, rs_items[1]) # pre_stock

\* C3: product stock is never negative, in the committed table and in the
\* transaction's own view, after any sequence of record_sale calls.
StockNeverNegative ==
  \A p \in ProductIds : stock[p] >= 0 /\ txStock[p] >= 0

\* a committed batch with two lines for the same product that together ask for
\* more than the stock held
OversoldBatchCommitted ==
  /\ rs_pc = "done"
  /\ rs_ret = "True"
  /\ Len(rs_items) = 2
  /\ rs_items[1].id = rs_items[2].id
  /\ rs_items[1].qty > 0
  /\ rs_items[1].qty * rs_items[1].deduct_unit + rs_items[2].qty * rs_items[2].deduct_unit
       > pre_stock[rs_items[1].id]
  /\ stock[rs_items[1].id] = 0

\* what the claims say a successful batch leaves: one row per item in input
\* order, and max(0, stock - qty * unit) item by item, unit 1 when missing or 0
ExpectedRows(items, method) ==
  [i \in 1..Len(items) |->
     [prod_id |-> items[i].id, method_type |-> method,
      amount |-> items[i].amount, qty |-> items[i].qty]]

RECURSIVE ExpectedStock(_, _, _)
ExpectedStock(st, items, k) ==
  IF k = 0 THEN st
  ELSE LET prev == ExpectedStock(st, items, k - 1)
           it == items[k]
           unit == IF it.deduct_unit = 0 THEN 1 ELSE it.deduct_unit
           left == prev[it.id] - it.qty * unit
       IN [prev EXCEPT ![it.id] = IF left < 0 THEN 0 ELSE left]

\* C4: a successful record_sale over a non-empty list has appended exactly one
\* sale row per item in input order, has set each referenced product's stock to
\* max(0, stock - qty * deductUnit) applied item by item (unit 1 when missing or
\* zero), has committed exactly once, after the last item, returned True, and
\* left the stock of every product the batch does not reference unchanged.
RecordSaleSuccessEffect ==
  /\ (rs_pc = "done" /\ rs_ret = "True" /\ rs_items # <<>>) =>
       /\ sales = pre_sales \o ExpectedRows(rs_items, rs_method)
       /\ stock = ExpectedStock(pre_stock, rs_items, Len(rs_items))
       /\ rs_commits = 1
       /\ \A p \in ProductIds :
            (\A i \in 1..Len(rs_items) : rs_items[i].id # p) => stock[p] = pre_stock[p]
  /\ rs_commits > 0 => (rs_commits = 1 /\ rs_ret = "True" /\ rs_i = Len(rs_items) + 1)

\* a committed two-item batch, one item without deduct unit, that changed stock
RecordSaleCommittedBatch ==
  /\ rs_pc = "done"
  /\ rs_ret = "True"
  /\ Len(rs_items) = 2
  /\ rs_items[1].deduct_unit = 0
  /\ rs_items[1].qty = 1
  /\ rs_items[2].deduct_unit = 2
  /\ stock[rs_items[1].id] < pre_stock[rs_items[1].id]
  /\ \E p \in ProductIds : \A i \in 1..2 : rs_items[i].id # p

\* C5: record_sale with an empty item list returns False without raising,
\* checks out no connection, opens no transaction and leaves the sales table
\* and all stock unchanged.
EmptySaleIsNoOp ==
  (rs_pc # "idle" /\ rs_items = <<>>) =>
    /\ rs_pc = "done"
    /\ rs_ret = "False"
    /\ rs_acquired = 0
    /\ ~inTx
    /\ rs_commits = 0
    /\ sales = pre_sales
    /\ stock = pre_stock

\* an empty call made when the sales table already holds rows
EmptySaleReturned ==
  /\ rs_pc = "done"
  /\ rs_items = <<>>
  /\ rs_ret = "False"
  /\ sales # <<>>

(***************************************************************************)
(* Claims about the payment flow, checked under Spec                       *)
(***************************************************************************)
NothingSold == rs_pc = "idle" /\ sales = hp_sales0 /\ stock = hp_stock0

\* C2: record_sale runs only after the payment has succeeded: for a card only
\* after the terminal's response was interpreted as approved, for cash only
\* after tendered >= total. Until then, and when the attempt ends with a
\* decline, a terminal communication failure or a cancelled dialog, no sale row
\* is inserted and no stock is changed.
SaleOnlyAfterPayment ==
  /\ rs_pc # "idle" =>
       /\ rs_caller = "handle_payment"
       /\ hp_pc \in {"saving", "finished"}
       /\ IF hp_method = "card"
            THEN ip_out.approved /\ ip_out.raised = "none" /\ lk_raised = "none"
            ELSE hp_tendered >= hp_total
  /\ hp_pc \in {"dialog", "connect", "send", "recv"} => NothingSold
  /\ (hp_pc = "finished"
        /\ hp_outcome \in {"cancelled", "declined", "linkly_error", "insufficient"})
       => NothingSold

\* a card payment was approved and its sale rows were committed afterwards
CardSaleSaved ==
  /\ hp_pc = "finished"
  /\ hp_outcome = "saved"
  /\ hp_method = "card"
  /\ ip_out.approved
  /\ Len(sales) = Len(hp_sales0) + 1

\* C6: one card payment attempt opens exactly one connection and sends the
\* request exactly once over it; whatever the outcome, there is no second
\* connect and no second send within the attempt. (A failed connect leaves
\* nothing to send on; cash never reaches the terminal.)
OneExchangePerAttempt ==
  /\ lk_connects <= 1
  /\ lk_sends <= 1
  /\ hp_pc \in {"send", "recv"} => lk_connects = 1
  /\ hp_pc = "recv" => lk_sends = 1
  /\ (hp_pc \in {"saving", "finished"} /\ hp_method = "card") =>
       /\ lk_connects = 1
       /\ lk_sends = IF lk_sockErr \in {"connect_refused", "connect_timeout"} THEN 0 ELSE 1
  /\ (hp_pc \in {"saving", "finished"} /\ hp_method = "cash") =>
       (lk_connects = 0 /\ lk_sends = 0)

\* the send timed out, so whether the terminal charged is unknown, and the
\* attempt ended after its one connect and one send
AmbiguousFailureNotRetried ==
  /\ hp_pc = "finished"
  /\ hp_outcome = "linkly_error"
  /\ lk_sockErr = "send_timeout"
  /\ lk_connects = 1
  /\ lk_sends = 1

LinklyFailure(err) ==
  /\ hp_pc = "finished"
  /\ lk_raised = "LinklyError"
  /\ hp_error = [kind |-> "LinklyError", cause |-> err]
  /\ hp_outcome = "linkly_error"
  /\ NothingSold

\* C10 as stated: every socket-level error of the exchange, a read timeout
\* included, raises a LinklyError carrying the cause, which the caller maps
\* into a payment failure, so that no sale is recorded.
SocketErrorsAsStated ==
  lk_sockErr # "none" => LinklyFailure(lk_sockErr)

\* C10 (amended): a connect failure, a timeout on connect or on send, or a
\* connection reset raises a LinklyError carrying the underlying cause, and the
\* caller maps it into a payment failure so that no sale is recorded; a read
\* timeout raises nothing: it ends the read loop, and the bytes received so far
\* are interpreted as the response.
SocketErrorsRaiseLinklyError ==
  /\ lk_sockErr \in {"connect_refused", "connect_timeout", "send_timeout", "send_reset",
                     "read_reset"} => LinklyFailure(lk_sockErr)
  /\ lk_sockErr = "read_timeout" =>
       /\ lk_raised = "none"
       /\ hp_outcome # "linkly_error"
       /\ in_wire = JoinChunks(lk_chunks)
       /\ ip_out = InterpretLinklyResponse(BytesStrip(in_wire))
  /\ lk_raised \in {"none", "LinklyError"}

\* the connection was reset after a first chunk had been received
ResetWhileReading ==
  /\ hp_pc = "finished"
  /\ lk_sockErr = "read_reset"
  /\ lk_chunks # <<>>
  /\ hp_outcome = "linkly_error"

(***************************************************************************)
(* Claims about the product cache and the repository, checked under        *)
(* CacheSpec                                                               *)
(***************************************************************************)
\* C11: load() never raises: for a backing file that is missing, unreadable,
\* not parsable, or parsable but not a list it returns the empty list, and for
\* a well-formed file it returns the stored list in storage order.
LoadNeverRaises ==
  c_last.op = "load" =>
    /\ c_last.raised = "none"
    /\ c_last.before.state \in {"missing", "unreadable", "garbage", "nonlist"}
         => c_last.ret = <<>>
    /\ c_last.before.state = "list" => c_last.ret = c_last.before.content
    /\ cacheFile = c_last.before

\* load() was called on a file that cannot be opened
UnreadableFileLoaded ==
  c_last.op = "load" /\ c_last.before.state = "unreadable" /\ c_last.ret = <<>>

UniqueBarcodes(c) ==
  \A i, j \in 1..Len(c) : i # j => c[i].barcode # c[j].barcode

\* the call ended in a merge: a merge itself, a fetch miss, a search fallback
MergedSomething ==
  \/ c_last.op = "merge"
  \/ c_last.op \in {"fetch", "search"} /\ ~c_last.hit /\ c_last.raised = "none"

\* C12 as stated: after any mergeByBarcode, hence after any fetchByBarcode miss
\* or search fallback, no two entries of the cache share a barcode, whatever
\* the cache held before and whatever the incoming list contains.
MergeLeavesUniqueBarcodesAsStated ==
  MergedSomething => UniqueBarcodes(LoadCache(cacheFile))

\* C12 (amended): after a mergeByBarcode of a non-empty list whose write goes
\* through, hence after a fetchByBarcode miss that found a row or a search
\* fallback that returned rows, no two entries of the cache share a barcode,
\* whatever the cache held before and whatever the incoming list contains.
MergeLeavesUniqueBarcodes ==
  (/\ MergedSomething
   /\ c_last.fault = "none"
   /\ IF c_last.op = "merge" THEN c_last.products # <<>> ELSE c_last.ret # <<>>)
    => /\ cacheFile.state = "list"
       /\ UniqueBarcodes(cacheFile.content)

\* a list with a repeated barcode was merged into a cache that held a
\* repeated barcode
DuplicatesMerged ==
  /\ c_last.op = "merge"
  /\ c_last.fault = "none"
  /\ Len(c_last.products) = 2
  /\ ~UniqueBarcodes(c_last.products)
  /\ c_last.before.state = "list"
  /\ ~UniqueBarcodes(c_last.before.content)
  /\ Len(LoadCache(cacheFile)) = 2

EntriesOf(c, b) == SelectSeq(c, LAMBDA e : e.barcode = b)

\* C13: mergeByBarcode is idempotent and last-write-wins: merging the same
\* list a second time leaves the cache equal to merging it once, and after
\* merging a snapshot of a barcode the cache holds exactly one entry for that
\* barcode, with the values merged last.
MergeIdempotentLastWriteWins ==
  (c_last.op = "merge" /\ c_last.fault = "none" /\ c_last.products # <<>>) =>
    /\ MergeIntoCache(cacheFile, c_last.products, "none") = cacheFile
    /\ \A i \in 1..Len(c_last.products) :
         LET b == c_last.products[i].barcode
             last == CHOOSE k \in 1..Len(c_last.products) :
                       /\ c_last.products[k].barcode = b
                       /\ \A h \in 1..Len(c_last.products) :
                            c_last.products[h].barcode = b => h <= k
         IN EntriesOf(LoadCache(cacheFile), b) = <<c_last.products[last]>>

\* C14: when the cache holds an entry for the requested barcode,
\* fetchByBarcode returns that entry without checking out a connection or
\* issuing a source query, even when the source row has changed since.
CacheHitTouchesNoSource ==
  (c_last.op = "fetch" /\ FindInCacheByBarcode(c_last.before, c_last.q) # <<>>) =>
    /\ c_last.ret = FindInCacheByBarcode(c_last.before, c_last.q)
    /\ c_last.raised = "none"
    /\ c_last.queries = 0
    /\ c_last.conns = 0
    /\ cacheFile = c_last.before

\* a fetch returned a cached snapshot that differs from the row of the source
StaleHitReturned ==
  /\ c_last.op = "fetch"
  /\ c_last.hit
  /\ c_last.ret # <<>>
  /\ SelectByBarcode(c_last.src, c_last.q) # <<>>
  /\ SelectByBarcode(c_last.src, c_last.q)[1].ver # c_last.ret[1].ver

FetchMissed ==
  /\ c_last.op = "fetch"
  /\ FindInCacheByBarcode(c_last.before, c_last.q) = <<>>
  /\ c_last.raised = "none"

\* the fetch that follows immediately is a hit returning the same product
NextFetchHits ==
  LET nxt == FetchProductByBarcode(cacheFile, c_last.src, c_last.q, "error", "none")
  IN nxt.hit /\ nxt.queries = 0 /\ nxt.ret = c_last.ret

FetchMissOutcome(hitExpected) ==
  FetchMissed =>
    /\ c_last.queries = 1
    /\ IF \E i \in 1..Len(c_last.src) :
            ~c_last.src[i].barcode.null /\ c_last.src[i].barcode.s = c_last.q
         THEN /\ Len(c_last.ret) = 1
              /\ \E i \in 1..Len(c_last.src) :
                   /\ c_last.src[i].barcode = Bc(c_last.q)
                   /\ c_last.ret[1] = [c_last.src[i] EXCEPT !.num = "float"]
              /\ hitExpected => NextFetchHits
         ELSE /\ c_last.ret = <<>>
              /\ cacheFile = c_last.before

NameRank(name) == CHOOSE k \in 1..Len(NameOrder) : NameOrder[k] = name

\* C16: search(query, limit) returns the cache's substring matches whenever
\* there is at least one, without querying the source; only when the cache
\* search is empty does it query the source (name or barcode wildcard match,
\* name ascending, at most `limit` rows), and it hands every returned row to
\* the merge before returning.
SearchCacheFirst ==
  c_last.op = "search" =>
    LET q == StripStr(c_last.q)
        cached == SearchCache(c_last.before, q, c_last.limit)
        matching == {i \in 1..Len(c_last.src) : LikeNameOrBarcode(c_last.src[i], q)}
    IN IF cached # <<>>
         THEN /\ c_last.ret = cached
              /\ c_last.queries = 0
              /\ c_last.conns = 0
              /\ cacheFile = c_last.before
         ELSE /\ c_last.queries = 1
              /\ c_last.raised = "none" =>
                   /\ Len(c_last.ret) =
                        IF Cardinality(matching) <= c_last.limit
                          THEN Cardinality(matching) ELSE c_last.limit
                   /\ \A k \in 1..Len(c_last.ret) :
                        \E i \in matching :
                          c_last.ret[k] = [c_last.src[i] EXCEPT !.num = "float"]
                   /\ \A k \in 1..(Len(c_last.ret) - 1) :
                        NameRank(c_last.ret[k].name) < NameRank(c_last.ret[k + 1].name)
                   /\ \A i \in matching :
                        (\A k \in 1..Len(c_last.ret) : c_last.ret[k].name # c_last.src[i].name)
                          => \A k \in 1..Len(c_last.ret) :
                               NameRank(c_last.ret[k].name) < NameRank(c_last.src[i].name)
                   /\ cacheFile = IF c_last.ret = <<>> THEN c_last.before
                                  ELSE MergeIntoCache(c_last.before, c_last.ret,
                                                      c_last.fault)
                   /\ c_last.fault = "none" =>
                        \A k \in 1..Len(c_last.ret) :
                          StrOfBarcode(c_last.ret[k].barcode) # <<>> =>
                            \E e \in 1..Len(LoadCache(cacheFile)) :
                              LoadCache(cacheFile)[e] = c_last.ret[k]

\* a fallback returned two rows in name order, which is not the table's order
FallbackSortedByName ==
  /\ c_last.op = "search"
  /\ ~c_last.hit
  /\ c_last.fault = "none"
  /\ Len(c_last.ret) = 2
  /\ c_last.ret[1].name = Bag.name
  /\ c_last.src[1].name = Tea(2).name

\* C17: primeCache(forceRefresh=false) on an existing cache returns the
\* cache's content unchanged and issues no source query; when no cache exists
\* or refresh is forced it performs a full scan of the source and overwrites
\* the cache with the scan result (save's contract: a failing write is
\* swallowed).
PrimeCacheAsSpecified ==
  c_last.op = "prime" =>
    IF Exists(c_last.before) /\ ~c_last.force
      THEN /\ c_last.ret = LoadCache(c_last.before)
           /\ c_last.queries = 0
           /\ c_last.conns = 0
           /\ c_last.raised = "none"
           /\ cacheFile = c_last.before
      ELSE /\ c_last.queries = 1
           /\ c_last.raised = "none" =>
                /\ Len(c_last.ret) = Len(c_last.src)
                /\ \A i \in 1..Len(c_last.src) :
                     c_last.ret[i] = [c_last.src[i] EXCEPT !.num = "float"]
                /\ c_last.fault = "none" => cacheFile = CacheFile("list", c_last.ret)

\* a forced prime replaced an existing, non-empty cache
ForcedPrimeOverwrote ==
  /\ c_last.op = "prime"
  /\ c_last.force
  /\ c_last.before.state = "list"
  /\ c_last.before.content # <<>>
  /\ c_last.raised = "none"
  /\ c_last.fault = "none"
  /\ cacheFile # c_last.before

\* C18: after a successful refreshCache (equivalently primeCache with
\* forceRefresh=true) the cache holds exactly the products of the source at
\* scan time: entries merged earlier whose rows no longer exist are gone, and
\* every stale snapshot is replaced by the current row.
RefreshMirrorsSource ==
  (c_last.op = "refresh" /\ c_last.raised = "none" /\ c_last.fault = "none") =>
    /\ cacheFile.state = "list"
    /\ Len(cacheFile.content) = Len(c_last.src)
    /\ \A i \in 1..Len(c_last.src) :
         cacheFile.content[i] = [c_last.src[i] EXCEPT !.num = "float"]
    /\ \A k \in 1..Len(LoadCache(c_last.before)) :
         (\A i \in 1..Len(c_last.src) :
            [c_last.src[i] EXCEPT !.num = "float"] # LoadCache(c_last.before)[k])
           => \A e \in 1..Len(cacheFile.content) :
                cacheFile.content[e] # LoadCache(c_last.before)[k]
    /\ c_last.ret = cacheFile.content
    /\ PrimeCache(c_last.before, c_last.src, TRUE, c_last.db, c_last.fault).file
         = cacheFile

\* a refresh dropped an entry whose row is gone and replaced a stale snapshot
RefreshDroppedAndReplaced ==
  /\ c_last.op = "refresh"
  /\ c_last.raised = "none"
  /\ c_last.fault = "none"
  /\ c_last.before = CacheFile("list", <<Tea(1), Bag>>)
  /\ cacheFile = CacheFile("list", <<Tea(2)>>)

(***************************************************************************)
(* Claims about attendance                                                 *)
(***************************************************************************)
IsOpen(row) == row.time_out = NullTime

OneOpenRecordPerStaffAndDate ==
  \A i, j \in 1..Len(attendance) :
    (/\ i # j
     /\ attendance[i].staff = attendance[j].staff
     /\ attendance[i].date = attendance[j].date
     /\ IsOpen(attendance[i]))
      => ~IsOpen(attendance[j])

ClockInOnlyWhenNoneOpen ==
  Len(attendance') > Len(attendance) =>
    \A i \in 1..Len(attendance) :
      (/\ attendance[i].staff = attendance'[Len(attendance')].staff
       /\ attendance[i].date = attendance'[Len(attendance')].date)
        => ~IsOpen(attendance[i])

\* C19 (checked under AttSpec): at every reachable state each staff member has
\* at most one open attendance record (time-out unset) per date, and a clock-in
\* inserts a new record only when no open record exists for that staff on that
\* date, for any sequence of clock actions.
AtMostOneOpenRecord ==
  []OneOpenRecordPerStaffAndDate /\ [][ClockInOnlyWhenNoneOpen]_vars

\* a staff member clocked out and clocked in again on the same day
ClockedInAgainSameDay ==
  \E i, j \in 1..Len(attendance) :
    /\ i < j
    /\ attendance[i].staff = attendance[j].staff
    /\ attendance[i].date = attendance[j].date
    /\ ~IsOpen(attendance[i])
    /\ IsOpen(attendance[j])
    /\ a_last.op = "clock_in"

RowKeptOrClosed(old, new) ==
  \/ new = old
  \/ IsOpen(old) /\ ~IsOpen(new) /\ new = [old EXCEPT !.time_out = new.time_out]

\* C20 (checked under AttApiSpec): each attendance row moves only from open to
\* closed and is mutated exactly once: once its time-out is set no later
\* clockOut, nor any other operation, changes the row or reopens it, and no
\* operation deletes it.
ClosedRowsAreFinal ==
  [][\A i \in 1..Len(attendance) :
       /\ i <= Len(attendance')
       /\ RowKeptOrClosed(attendance[i], attendance'[i])]_vars

(***************************************************************************)
(* Claims about the response interpreter, checked under InterpSpec         *)
(***************************************************************************)
\* a reason string the response carries in a field
GivenReason(v) == v.t = "str" /\ v.s # ""

\* C7: for every response that parses as a JSON object the payment succeeds,
\* with no reason, exactly when the field `approved` or `success` is the boolean
\* true; otherwise it fails with the reason taken from `message`, else from
\* `responseText`, else the generic fallback string.
JsonFieldDrivesOutcome ==
  (ip_pc = "done" /\ in_doc.kind = "object") =>
    /\ ip_out.raised = "none"
    /\ IF in_doc.approved = TrueTok \/ in_doc.success = TrueTok
         THEN ip_out.approved /\ ip_out.kind = "None"
         ELSE /\ ~ip_out.approved
              /\ IF GivenReason(in_doc.message)
                   THEN ip_out.kind = "Field" /\ ip_out.str = in_doc.message.s
                 ELSE IF GivenReason(in_doc.responseText)
                   THEN ip_out.kind = "Field" /\ ip_out.str = in_doc.responseText.s
                 ELSE ip_out.kind = "Fallback" /\ ip_out.str = "Card payment declined."

\* the words of the vocabulary that hold an approval / a decline keyword,
\* whatever their case
ApproveWords ==
  {"APPROVED", "approved", "Transaction Success", "Unsuccessful", "NOT APPROVED - DECLINED"}
DeclineWords ==
  {"DECLINED BY ISSUER", "declined", "FAILED", "ERROR 51", "NOT APPROVED - DECLINED"}

\* a response that is not empty and is not valid JSON
NotJson(d) == d.kind \in {"text", "truncated"}

HasApproveKeyword(d) ==
  IF d.kind = "text" THEN \E i \in 1..Len(d.words) : d.words[i] \in ApproveWords
  ELSE d.approved # Absent \/ d.success # Absent

HasDeclineKeyword(d) ==
  IF d.kind = "text" THEN \E i \in 1..Len(d.words) : d.words[i] \in DeclineWords
  ELSE Tok("str", "declined") \in {d.message, d.responseText}

IsSuccess(out) == out.approved /\ out.kind = "None" /\ out.raised = "none"
IsFailure(out, kind) == ~out.approved /\ out.kind = kind /\ out.raised = "none"

\* C8 as stated: text with APPROVED or SUCCESS is success; text with DECLINED,
\* FAILED or ERROR is failure with the raw text as reason; text with none of
\* them is failure with an "unrecognized response" reason.
KeywordScanAsStated ==
  (ip_pc = "done" /\ NotJson(in_doc)) =>
    /\ HasApproveKeyword(in_doc) => IsSuccess(ip_out)
    /\ HasDeclineKeyword(in_doc) =>
         (IsFailure(ip_out, "RawText") /\ ip_out.text = DocBody(in_doc))
    /\ (~HasApproveKeyword(in_doc) /\ ~HasDeclineKeyword(in_doc)) =>
         (IsFailure(ip_out, "Unrecognized") /\ ip_out.text = DocBody(in_doc))

\* C8 (amended): for every non-empty response that is not valid JSON, text
\* containing APPROVED or SUCCESS (in any case) is success; text containing
\* DECLINED, FAILED or ERROR and neither APPROVED nor SUCCESS is failure with
\* the raw text as reason; text with none of the keywords is failure with an
\* "unrecognized response" reason.
KeywordScanDecides ==
  (ip_pc = "done" /\ NotJson(in_doc)) =>
    /\ HasApproveKeyword(in_doc) => IsSuccess(ip_out)
    /\ (HasDeclineKeyword(in_doc) /\ ~HasApproveKeyword(in_doc)) =>
         (IsFailure(ip_out, "RawText") /\ ip_out.text = DocBody(in_doc))
    /\ (~HasApproveKeyword(in_doc) /\ ~HasDeclineKeyword(in_doc)) =>
         (IsFailure(ip_out, "Unrecognized") /\ ip_out.text = DocBody(in_doc))

\* b"DECLINED BY ISSUER\n" was interpreted
DeclinedByIssuerInterpreted ==
  /\ ip_pc = "done"
  /\ in_wire = <<Tok("raw", "DECLINED BY ISSUER"), NL>>
  /\ ip_out.kind = "RawText"
  /\ ip_out.text = <<Tok("raw", "DECLINED BY ISSUER")>>

\* C9: a response that is empty, or only whitespace and newlines before
\* trimming, is interpreted as a failure with the "no response" reason.
EmptyResponseIsNoResponse ==
  (ip_pc = "done" /\ in_doc.kind = "blank") =>
    (IsFailure(ip_out, "NoResponse") /\ ip_out.str = "No response from Linkly.")

\* a response of a space and a newline was interpreted
BlankResponseInterpreted ==
  /\ ip_pc = "done"
  /\ in_wire = <<SP, NL>>
  /\ ip_out.kind = "NoResponse"

(***************************************************************************)
(* Claims about connections and errors of the repository                   *)
(***************************************************************************)
\* C21 (checked under SaleSpec): every connection checked out of the pool is
\* returned to it on every exit path of the operation that acquired it
\* (success, query error, failure to open the cursor or start the
\* transaction, early return), so after any finished operation the number of
\* checked-out connections is 0.
NoConnectionLeaked ==
  rs_pc \in {"idle", "done"} => poolOut = 0

\* C22 (checked under CacheSpec): no low-level driver error reaches a caller
\* raw: every failure of a read query surfaces as a DatabaseError.
DriverErrorsWrapped ==
  c_last.op # "none" => c_last.raised \in {"none", "DatabaseError"}

(***************************************************************************)
(* Claims about the cart                                                   *)
(***************************************************************************)
\* the stock units a quantity of a product takes (deduct-unit 1 by default)
UnitsNeeded(product, qty) ==
  qty * (IF product.deduct_unit = 0 THEN 1 ELSE product.deduct_unit)

\* the cart with the requested quantity in it
CartWith(a) ==
  IF a.op = "add"
    THEN Append(a.before, [product |-> a.product, qty |-> a.qty,
                           price |-> a.product.sell_price])
    ELSE [a.before EXCEPT ![a.row].qty = a.qty]

\* C23: a quantity is accepted for a cart line without override exactly when
\* quantity x deductUnit <= the product's known stock; a rejected quantity
\* enters the cart only when the operator confirms the override, and
\* otherwise the cart line is left unchanged.
StockCheckDecides ==
  qa.op # "none" =>
    LET fits == UnitsNeeded(qa.product, qa.qty) <= qa.product.stock
    IN /\ fits <=> ~qa.asked
       /\ fits => cart = CartWith(qa)
       /\ ~fits => cart = (IF qa.override THEN CartWith(qa) ELSE qa.before)

\* a keypad quantity above the stock went into the cart on the operator's Yes
OverrideAdmittedQty ==
  /\ qa.op = "pad"
  /\ qa.asked
  /\ qa.override
  /\ UnitsNeeded(qa.product, qa.qty) > qa.product.stock
  /\ cart[qa.row].qty = qa.qty
  /\ cart # qa.before

(***************************************************************************)
(* Claims about the rows of a sale                                         *)
(***************************************************************************)
\* C24 (checked under SaleSpec): every sale row that record_sale inserts has
\* amount = quantity x price of its line item, recomputed rather than taken
\* from the caller-supplied amount field.
SaleAmountRecomputed ==
  (rs_pc = "done" /\ rs_ret = "True") =>
    \A k \in 1..Len(rs_items) :
      sales[Len(pre_sales) + k].amount = rs_items[k].qty * rs_items[k].price

NameOrBarcodeContains(p, query) ==
  \/ Contains(LowerStr(query), LowerStr(p.name))
  \/ ~p.barcode.null /\ Contains(LowerStr(query), LowerStr(p.barcode.s))

\* C26 (checked under CacheSpec): for every query and every limit >= 0,
\* search_cache returns only cache entries whose name or barcode contains the
\* query case-insensitively, in storage order with no matching entry skipped
\* before the last returned one, and never more than `limit` entries; an
\* empty query returns the empty list.
SearchCacheAsStated ==
  c_last.op = "search_cache" =>
    LET stored == LoadCache(c_last.before)
        matching == SelectSeq(stored, LAMBDA p : NameOrBarcodeContains(p, c_last.q))
    IN /\ c_last.q = <<>> => c_last.ret = <<>>
       /\ Len(c_last.ret) <= c_last.limit
       /\ Len(c_last.ret) <= Len(matching)
       /\ c_last.ret = SubSeq(matching, 1, Len(c_last.ret))

(***************************************************************************)
(* Claims about the response read loop and the interpreter's totality      *)
(***************************************************************************)
\* C27 (checked under ReadSpec): the response read loop always terminates:
\* for every peer behaviour it stops at the first received chunk containing a
\* newline byte, at the first read timeout, or when the peer closes the
\* connection, and returns the chunks received so far.
ReadLoopTerminates ==
  (hp_pc = "recv") ~> (hp_pc # "recv")

\* C28 (checked under InterpSpec): interpretation is total: for every
\* non-empty response, valid JSON that is not an object included,
\* _interpret_linkly_response returns success or a failure with a reason and
\* never raises.
InterpretationTotal ==
  (ip_pc = "done" /\ in_wire # <<>>) =>
    /\ ip_out.raised = "none"
    /\ ip_out.approved \/ ip_out.kind # "pending"

(***************************************************************************)
(* Claims about a charge and its sale, and about the merge's frame         *)
(***************************************************************************)
\* C29 (checked under Spec): every approved card payment leads to a
\* committed sale for the same cart: no run of handle_payment ends with the
\* charge approved by the terminal, the sale not stored and the cart still
\* filled, ready for a second charge for the same goods.
ApprovedChargeIsStored ==
  (hp_pc = "finished" /\ hp_method = "card" /\ lk_sends > 0 /\ ip_out.approved) =>
    /\ hp_outcome = "saved"
    /\ cart = <<>>
    /\ Len(sales) = Len(hp_sales0) + Len(rs_items)

\* C30 (checked under CacheSpec): mergeByBarcode changes only the entries
\* whose barcode occurs in the incoming list: every entry that was in the
\* cache before the merge and whose barcode is not in the incoming list
\* (entries with a missing or empty barcode included) is still in the cache,
\* with the same values, after the merge.
MergeKeepsOtherEntries ==
  (c_last.op = "merge" /\ c_last.fault = "none") =>
    \A i \in 1..Len(LoadCache(c_last.before)) :
      LET entry == LoadCache(c_last.before)[i]
      IN (\A k \in 1..Len(c_last.products) : c_last.products[k].barcode # entry.barcode)
           => \E j \in 1..Len(LoadCache(cacheFile)) : LoadCache(cacheFile)[j] = entry

====
